---- MODULE Spec2Model ----
(***************************************************************************)
(* A model of the Gemini protocol engine of melon095/Gemini.               *)
(*                                                                         *)
(* Part 1: the response parser (crates/protocol/src/gemini_protocol) and   *)
(* the gemtext parser it calls for success bodies.  A reply is a sequence  *)
(* of one-character strings; the parser is run as a state machine whose    *)
(* position pc is the parser method about to run and whose steps are the   *)
(* calls of iter.next().                                                   *)
(***************************************************************************)
EXTENDS Integers, Sequences, FiniteSets, TLC

(***************************************************************************)
(* Bounds of the model.                                                    *)
(***************************************************************************)
\* longest exhaustively enumerated tail after the status prefix
MaxTail == 3
\* longest exhaustively enumerated tail after the prefix of a gemtext line
MaxLineTail == 3
\* most '#' characters at the start of an enumerated heading line
MaxDepth == 7
\* most lines of an enumerated gemtext document
MaxLines == 3
\* most characters of an enumerated host string
MaxHost == 2
\* most records of application data the peer of a TlsClient delivers
MaxAvail == 2
\* most calls of read, write and flush made on a TlsClient
MaxCalls == 3
\* most bytes of a buf handed to write
MaxBuf == 2
\* most entries of the history of a Document
MaxHistory == 3
\* most documents a GeminiRootWindow constructs
MaxDocs == 3
\* most loads the documents of a GeminiRootWindow start
MaxLoads == 4

(***************************************************************************)
(* Characters and strings.                                                 *)
(***************************************************************************)
SP == " "
CR == "\r"
LF == "\n"
TAB == "\t"
NUL == "\\0"

DigitSeq == <<"0", "1", "2", "3", "4", "5", "6", "7", "8", "9">>
DigitChars == {DigitSeq[i] : i \in 1..10}

\* char::to_digit(10): Some(value) for '0'..'9', None otherwise
IsDigit(c) == c \in DigitChars
DigitVal(c) == (CHOOSE i \in 1..10 : DigitSeq[i] = c) - 1

\* char::is_whitespace, restricted to the characters of the model
IsWhitespace(c) == c \in {SP, TAB, LF, CR}

CRLF == <<CR, LF>>

\* Option<T>
NoneV == [some |-> FALSE]
Some(x) == [some |-> TRUE, val |-> x]

RECURSIVE TrimStart(_)
TrimStart(s) ==
    IF s # <<>> /\ IsWhitespace(Head(s)) THEN TrimStart(Tail(s)) ELSE s

RECURSIVE TrimEnd(_)
TrimEnd(s) ==
    IF s # <<>> /\ IsWhitespace(s[Len(s)])
    THEN TrimEnd(SubSeq(s, 1, Len(s) - 1))
    ELSE s

\* str::trim
Trim(s) == TrimEnd(TrimStart(s))

\* str::find(ch): the 1-based index of the first ch of s, 0 when there is none
Find(s, ch) ==
    IF \E i \in 1..Len(s) : s[i] = ch
    THEN CHOOSE i \in 1..Len(s) : s[i] = ch /\ \A j \in 1..(i - 1) : s[j] # ch
    ELSE 0

\* str::split(ch): n separators give n + 1 pieces, empty pieces included
RECURSIVE SplitOn(_, _)
SplitOn(s, ch) ==
    LET i == Find(s, ch) IN
    IF i = 0 THEN <<s>>
    ELSE <<SubSeq(s, 1, i - 1)>> \o SplitOn(SubSeq(s, i + 1, Len(s)), ch)

\* str::starts_with
StartsWith(s, p) == Len(s) >= Len(p) /\ SubSeq(s, 1, Len(p)) = p

(***************************************************************************)
(* Values: Result<Response, ParserError> and its parts.                    *)
(***************************************************************************)
\* Ok(Response::<variant>(payload))
Ok(variant, payload) == [tag |-> "Ok", variant |-> variant, payload |-> payload]
\* Err(ParserError { line, kind })
Err(line, kind) == [tag |-> "Err", line |-> line, kind |-> kind]
\* the value of result while the parse is running
NoResult == [tag |-> "None"]

\* ErrorKind
InvalidStatus(n) == [k |-> "InvalidStatus", n |-> n]
InvalidBody(e) == [k |-> "InvalidBody", e |-> e]
SyntaxExpectedData == [k |-> "SyntaxExpectedData"]
SyntaxMissingNewline == [k |-> "SyntaxMissingNewline"]
SyntaxMissingSpace == [k |-> "SyntaxMissingSpace"]
InvalidDigit == [k |-> "InvalidDigit"]

(***************************************************************************)
(* The match of each family handler on the second status digit c.          *)
(* line is self.line when the match runs (make_err reads it).              *)
(***************************************************************************)
InputMatch(c, prompt, line) ==
    CASE c = 0 -> Ok("MustPromptForInput", prompt)
      [] c = 1 -> Ok("MustPromptSensitiveInput", prompt)
      [] OTHER -> Err(line, InvalidStatus(10 + c))

RedirectMatch(c, url, line) ==
    CASE c = 0 -> Ok("TemporaryRedirect", url)
      [] c = 1 -> Ok("PermanentRedirect", url)
      [] OTHER -> Err(line, InvalidStatus(30 + c))

TempfailMatch(c, msg, line) ==
    CASE c = 0 -> Ok("UnexpectedErrorTryAgain", msg)
      [] c = 1 -> Ok("ServerUnavailable", msg)
      [] c = 2 -> Ok("CGIError", msg)
      [] c = 3 -> Ok("ProxyError", msg)
      [] c = 4 -> Ok("SlowDown", msg)
      [] OTHER -> Err(line, InvalidStatus(40 + c))

\* a faulty permfail: the arm of 59 is missing
PermfailMatchNo59(c, msg, line) ==
    CASE c = 0 -> Ok("PermanentFailure", msg)
      [] c = 1 -> Ok("ResourceNotFound", msg)
      [] c = 2 -> Ok("ResourceGone", msg)
      [] c = 3 -> Ok("ProxyRequestRefused", msg)
      [] OTHER -> Err(line, InvalidStatus(50 + c))

PermfailMatch(c, msg, line) ==
    CASE c = 0 -> Ok("PermanentFailure", msg)
      [] c = 1 -> Ok("ResourceNotFound", msg)
      [] c = 2 -> Ok("ResourceGone", msg)
      [] c = 3 -> Ok("ProxyRequestRefused", msg)
      [] c = 9 -> Ok("BadRequest", msg)
      [] OTHER -> Err(line, InvalidStatus(50 + c))

AuthMatch(c, msg, line) ==
    CASE c = 0 -> Ok("CertificateRequired", msg)
      [] c = 1 -> Ok("CertificateNotAuthorized", msg)
      [] c = 2 -> Ok("CertificateNotValid", msg)
      [] OTHER -> Err(line, InvalidStatus(60 + c))

(***************************************************************************)
(* Parser::mimetype, after its two eat_until calls: t is the text read up  *)
(* to '/', s the text read up to '\r'.                                     *)
(***************************************************************************)
charset == <<"c", "h", "a", "r", "s", "e", "t">>
lang == <<"l", "a", "n", "g">>

\* a faulty closure: the key is not tested, every key = value pair is kept
MimeParamKeepAll(piece) ==
    LET parts == SplitOn(piece, "=") IN
    IF Len(parts) < 2 THEN NoneV
    ELSE Some(<<Trim(parts[1]), Trim(parts[2])>>)

\* the closure of filter_map: Some((key, value)) or None for one piece
MimeParam(piece) ==
    LET parts == SplitOn(piece, "=") IN
    IF Len(parts) < 2 THEN NoneV
    ELSE LET key == Trim(parts[1])
             value == Trim(parts[2])
         IN  IF key # charset /\ key # lang THEN NoneV
             ELSE Some(<<key, value>>)

\* collect::<HashMap<String, String>>(): a later pair replaces an earlier pair
\* with the same key.  The map is the set of its <<key, value>> pairs.
RECURSIVE CollectParams(_, _)
CollectParams(pieces, map) ==
    IF pieces = <<>> THEN map
    ELSE LET p == MimeParam(Head(pieces)) IN
         CollectParams(Tail(pieces),
             IF p.some
             THEN {q \in map : q[1] # p.val[1]} \cup {p.val}
             ELSE map)

\* a faulty mimetype: the subtype is not cut at the first ';'
MimeTypeOfWholeSub(t, s) ==
    IF Find(s, ";") = 0
    THEN [typ |-> t, sub |-> s, parameters |-> NoneV]
    ELSE [typ |-> t, sub |-> s,
          parameters |-> Some(CollectParams(SplitOn(s, ";"), {}))]

MimeTypeOf(t, s) ==
    LET params_idx == Find(s, ";") IN
    IF params_idx = 0
    THEN [typ |-> t, sub |-> s, parameters |-> NoneV]
    ELSE [typ |-> t,
          sub |-> SubSeq(s, 1, params_idx - 1),
          parameters |-> Some(CollectParams(SplitOn(s, ";"), {}))]

(***************************************************************************)
(* The gemtext parser (crates/protocol/src/gemtext), called by             *)
(* Parser::success on the body of a success reply.                         *)
(***************************************************************************)
LINK_START == <<"=", ">">>
\* the grave accent (U+0060), written by name: the lexer does not read it in a string
BACKTICK == "GRAVE"
PREFORMAT_TOGGLE == <<BACKTICK, BACKTICK, BACKTICK>>
HEADING_START == <<"#">>
LIST_ITEM == <<"*">>
QUOTE_START == <<">">>
WSP == {SP, TAB}

\* the base URL the links of a body are resolved against (url_path)
BaseUrl == <<"g", ":", "/", "/", "h", "/">>

\* str::lines(): the pieces between '\n', a '\r' right before a '\n' removed,
\* and no empty last line after a final '\n'
Lines(str) ==
    LET pieces == SplitOn(str, LF)
        n == Len(pieces)
        strip(l) == IF l # <<>> /\ l[Len(l)] = CR
                    THEN SubSeq(l, 1, Len(l) - 1) ELSE l
        ended == [i \in 1..(n - 1) |-> strip(pieces[i])]
    IN  IF pieces[n] = <<>> THEN ended ELSE ended \o <<pieces[n]>>

\* chars().skip(n)
Skip(s, n) == SubSeq(s, n + 1, Len(s))

RECURSIVE TakeWhileWhitespace(_)
TakeWhileWhitespace(s) ==
    IF s # <<>> /\ IsWhitespace(Head(s))
    THEN <<Head(s)>> \o TakeWhileWhitespace(Tail(s))
    ELSE <<>>

\* take_while(|c| *c == '#').count()
CountHashes(s) ==
    IF \A i \in 1..Len(s) : s[i] = "#" THEN Len(s)
    ELSE (CHOOSE i \in 1..Len(s) :
            s[i] # "#" /\ \A j \in 1..(i - 1) : s[j] = "#") - 1

\* the url crate drops every tab, CR and LF of its input before it parses
UrlText(input) == SelectSeq(input, LAMBDA c : c \notin {TAB, CR, LF})

\* the input starts with a scheme: letters, then ':'
IsLetter(c) == c \in {"a", "b", "c", "e", "g", "h", "i", "l", "m", "n", "r", "s", "t", "x"}
HasScheme(u) ==
    LET i == Find(u, ":") IN
    i > 1 /\ \A j \in 1..(i - 1) : IsLetter(u[j])

\* the authority of a URL or reference whose text after the scheme is r:
\* the text between a leading "//" and the next '/'
HasAuthority(r) == StartsWith(r, <<"/", "/">>)
Authority(r) ==
    LET a == Skip(r, 2) IN
    IF Find(a, "/") = 0 THEN a ELSE SubSeq(a, 1, Find(a, "/") - 1)

\* the url crate rejects an authority with a port and no host, and a port
\* that is not a number
AuthorityOk(a) ==
    LET i == Find(a, ":") IN
    i = 0 \/ (i > 1 /\ \A j \in (i + 1)..Len(a) : IsDigit(a[j]))

\* what the url crate parses of u once the scheme, if any, is read
AfterScheme(u) == IF HasScheme(u) THEN Skip(u, Find(u, ":")) ELSE u
UrlSyntaxOk(u) == HasAuthority(AfterScheme(u)) => AuthorityOk(Authority(AfterScheme(u)))

\* Url::parse(input) succeeds: an absolute URL, well formed
IsAbsoluteUrl(input) == HasScheme(UrlText(input)) /\ UrlSyntaxOk(UrlText(input))
\* url_path.join(input) succeeds: a well-formed reference
JoinOk(input) == UrlSyntaxOk(UrlText(input))

\* a faulty make_url: an input that is no absolute URL is kept as it is
MakeUrlNoJoin(input) ==
    IF IsAbsoluteUrl(input) \/ JoinOk(input)
    THEN [base |-> <<>>, ref |-> UrlText(input)]
    ELSE [err |-> "InvalidUrl"]

\* GemTextParser::make_url: the input itself when it parses as a URL, else
\* the input joined against url_path, else InvalidUrl.  A Url is the pair of
\* the base it was resolved against (none for an absolute URL) and its text.
MakeUrl(input) ==
    IF IsAbsoluteUrl(input)
    THEN [base |-> <<>>, ref |-> UrlText(input)]
    ELSE IF JoinOk(input)
    THEN [base |-> BaseUrl, ref |-> UrlText(input)]
    ELSE [err |-> "InvalidUrl"]

\* splitn(2, WSP): at most two pieces, split at the first ' ' or '\t'
SplitN2(line) ==
    IF \E i \in 1..Len(line) : line[i] \in WSP
    THEN LET i == CHOOSE k \in 1..Len(line) :
                      line[k] \in WSP /\ \A j \in 1..(k - 1) : line[j] \notin WSP
         IN  <<SubSeq(line, 1, i - 1), SubSeq(line, i + 1, Len(line))>>
    ELSE <<line>>

\* the pieces of s between its spaces and tabs, the empty pieces left out
RECURSIVE Tokens(_)
Tokens(s) ==
    IF s = <<>> THEN <<>>
    ELSE IF Len(SplitN2(s)) = 1 THEN <<s>>
    ELSE (IF SplitN2(s)[1] = <<>> THEN <<>> ELSE <<SplitN2(s)[1]>>)
             \o Tokens(SplitN2(s)[2])

\* the pieces of ts with one space between each two
RECURSIVE JoinSp(_)
JoinSp(ts) ==
    IF ts = <<>> THEN <<>>
    ELSE IF Len(ts) = 1 THEN ts[1]
    ELSE ts[1] \o <<SP>> \o JoinSp(Tail(ts))

\* a faulty link_line: the description is split into tokens and rejoined
LinkLineRejoined(cursor, line_num) ==
    LET split == Tokens(TrimStart(Skip(cursor, 2)))
    IN  IF Len(split) = 0
        THEN [err |-> "LinkLineMissingUrl", line |-> line_num]
        ELSE IF "err" \in DOMAIN MakeUrl(split[1])
        THEN [err |-> MakeUrl(split[1]).err, line |-> line_num]
        ELSE IF Len(split) = 1
        THEN [t |-> "Link", url |-> MakeUrl(split[1]), description |-> NoneV]
        ELSE [t |-> "Link", url |-> MakeUrl(split[1]),
              description |-> Some(JoinSp(Tail(split)))]

\* a faulty link_line: the description loses the whitespace it starts with
LinkLineTrimsDescription(cursor, line_num) ==
    LET line == TrimStart(Skip(cursor, 2))
        split == SelectSeq(SplitN2(line), LAMBDA p : p # <<>>)
    IN  IF Len(split) = 0
        THEN [err |-> "LinkLineMissingUrl", line |-> line_num]
        ELSE IF "err" \in DOMAIN MakeUrl(split[1])
        THEN [err |-> MakeUrl(split[1]).err, line |-> line_num]
        ELSE IF Len(split) = 1 \/ TrimStart(split[2]) = <<>>
        THEN [t |-> "Link", url |-> MakeUrl(split[1]), description |-> NoneV]
        ELSE [t |-> "Link", url |-> MakeUrl(split[1]),
              description |-> Some(TrimStart(split[2]))]

\* GemTextParser::link_line; a GemTextError is [err |-> kind, line |-> line_num]
LinkLine(cursor, line_num) ==
    LET line == TrimStart(Skip(cursor, 2))
        split == SelectSeq(SplitN2(line), LAMBDA p : p # <<>>)
    IN  IF Len(split) = 0
        THEN [err |-> "LinkLineMissingUrl", line |-> line_num]
        ELSE IF "err" \in DOMAIN MakeUrl(split[1])
        THEN [err |-> MakeUrl(split[1]).err, line |-> line_num]
        ELSE IF Len(split) = 1
        THEN [t |-> "Link", url |-> MakeUrl(split[1]), description |-> NoneV]
        ELSE [t |-> "Link", url |-> MakeUrl(split[1]),
              description |-> Some(split[2])]

\* a faulty heading: the marker is taken to be one character long
HeadingOfOneHash(cursor) ==
    [t |-> "Heading", text |-> Trim(Skip(cursor, 1)), depth |-> 1]

\* GemTextParser::heading; depth is cast to u8
Heading(cursor) ==
    LET depth == CountHashes(cursor) IN
    [t |-> "Heading", text |-> Trim(Skip(cursor, depth)), depth |-> depth % 256]

\* GemTextParser::list_item: skips "* ".len() characters
ListItem(cursor) == [t |-> "ListItem", text |-> Skip(cursor, 2)]

\* GemTextParser::quote_line with take_cursor_whitespace
QuoteLine(cursor) == [t |-> "Quote", text |-> TakeWhileWhitespace(Skip(cursor, 1))]

\* a faulty preformat_toggle: the mode is entered and never left
PreformatToggleSticky(mode) ==
    [line |-> [t |-> "PreformatToggleOn"], mode |-> "Preformat"]

\* GemTextParser::preformat_toggle: the line emitted and the new mode
PreformatToggle(mode) ==
    IF mode = "Normal"
    THEN [line |-> [t |-> "PreformatToggleOn"], mode |-> "Preformat"]
    ELSE [line |-> [t |-> "PreformatToggleOff"], mode |-> "Normal"]

\* a faulty gemtext_line: in Preformat mode a line that is no toggle is
\* plain text
GemtextLineVerbatim(cursor, mode, line_num) ==
    IF StartsWith(cursor, LINK_START) /\ mode = "Normal"
    THEN [line |-> LinkLine(cursor, line_num), mode |-> mode]
    ELSE IF StartsWith(cursor, PREFORMAT_TOGGLE) /\ ~StartsWith(cursor, LINK_START)
    THEN PreformatToggle(mode)
    ELSE IF StartsWith(cursor, HEADING_START) /\ mode = "Normal"
    THEN [line |-> Heading(cursor), mode |-> mode]
    ELSE IF StartsWith(cursor, LIST_ITEM) /\ mode = "Normal"
    THEN [line |-> ListItem(cursor), mode |-> mode]
    ELSE IF StartsWith(cursor, QUOTE_START) /\ mode = "Normal"
    THEN [line |-> QuoteLine(cursor), mode |-> mode]
    ELSE [line |-> [t |-> "Text", text |-> cursor], mode |-> mode]

\* a faulty gemtext_line: the text of a plain line is trimmed
GemtextLineTrimmed(cursor, mode, line_num) ==
    IF StartsWith(cursor, LINK_START)
    THEN [line |-> LinkLine(cursor, line_num), mode |-> mode]
    ELSE IF StartsWith(cursor, PREFORMAT_TOGGLE) THEN PreformatToggle(mode)
    ELSE IF StartsWith(cursor, HEADING_START)
    THEN [line |-> Heading(cursor), mode |-> mode]
    ELSE IF StartsWith(cursor, LIST_ITEM)
    THEN [line |-> ListItem(cursor), mode |-> mode]
    ELSE IF StartsWith(cursor, QUOTE_START)
    THEN [line |-> QuoteLine(cursor), mode |-> mode]
    ELSE [line |-> [t |-> "Text", text |-> Trim(cursor)], mode |-> mode]

\* GemTextParser::gemtext_line: the Line (or GemTextError) of one physical
\* line and the mode after it
GemtextLine(cursor, mode, line_num) ==
    IF StartsWith(cursor, LINK_START)
    THEN [line |-> LinkLine(cursor, line_num), mode |-> mode]
    ELSE IF StartsWith(cursor, PREFORMAT_TOGGLE) THEN PreformatToggle(mode)
    ELSE IF StartsWith(cursor, HEADING_START)
    THEN [line |-> Heading(cursor), mode |-> mode]
    ELSE IF StartsWith(cursor, LIST_ITEM)
    THEN [line |-> ListItem(cursor), mode |-> mode]
    ELSE IF StartsWith(cursor, QUOTE_START)
    THEN [line |-> QuoteLine(cursor), mode |-> mode]
    ELSE [line |-> [t |-> "Text", text |-> cursor], mode |-> mode]

\* GemTextParser::gemtext_document: the loop over the lines, from line i on
RECURSIVE GemtextFrom(_, _, _, _)
GemtextFrom(lines, i, mode, b) ==
    IF i > Len(lines) THEN [ok |-> TRUE, lines |-> b]
    ELSE LET r == GemtextLine(lines[i], mode, i) IN
         IF "err" \in DOMAIN r.line
         THEN [ok |-> FALSE, line |-> r.line.line, kind |-> r.line.err]
         ELSE GemtextFrom(lines, i + 1, r.mode, Append(b, r.line))

\* parse_gemtext
ParseGemtext(str) == GemtextFrom(Lines(str), 1, "Normal", <<>>)

(***************************************************************************)
(* The state of one parse_response run.                                    *)
(***************************************************************************)
VARIABLES
    input,      \* the reply text given to parse_response
    pos,        \* Parser.iter: the number of characters taken from input
    line,       \* Parser.line
    pc,         \* the parser method about to run, "done" after the return
    fam,        \* the first status character, once reply has dispatched on it
    digit,      \* the value eat_digit returned for the second status character
    has_msg,    \* read_error_msg: TRUE when it found the space of a message
    acc,        \* the String s that eat_until_crlf or eat_until is building
    typ,        \* mimetype: t, the text read up to '/'
    mime,       \* success: the MimeType returned by mimetype
    result,     \* the value parse_response returns
    str,        \* the text given to parse_gemtext
    line_iter,  \* GemTextParser.line_iter: the lines of str
    line_num,   \* GemTextParser.line_num
    cursor,     \* GemTextParser.cursor
    mode,       \* GemTextParser.mode
    b,          \* gemtext_document: the lines pushed to the GemTextBody b
    doc,        \* the value parse_gemtext returns
    first,      \* the value an earlier call of parse_gemtext on str returned
    host,       \* new_from_host: addr.0
    conn,       \* what new_from_host returned: "Ok" or the NetworkError
    tpc,        \* the statement of TlsClient about to run
    handshaking,    \* client_connection.is_handshaking()
    pending,    \* client_connection: ciphertext records not yet written
    plain,      \* client_connection: received plaintext not yet read
    avail,      \* socket: the records the peer delivers before end-of-file
    close_notify,   \* client_connection: the peer's close_notify has arrived
    queued,     \* the ciphertext records the session has produced so far
    sent,       \* the ciphertext records written to the socket so far
    call,       \* the io::Read / io::Write method running, "none" between
    buf,        \* write: buf.len()
    calls,      \* the calls made on this TlsClient
    handed,     \* write: Some(len) once writer().write(buf) returned len
    after_hand, \* write: the I/O rounds run since the hand-over
    failed,     \* the running call has seen an Err
    after_fail, \* the I/O rounds run in the call since that Err
    ret,        \* what the last call returned
    state,      \* Document.state
    history,    \* Document.history
    tasks,      \* the futures of load_document the runtime is running
    inbox,      \* the LoadComplete messages the runtime has not delivered yet
    documents,  \* GeminiRootWindow.documents
    document_cursor,    \* GeminiRootWindow.document_cursor
    loads,      \* the tasks of loads the window has not got the message of
    crashed,    \* GeminiRootWindow::update has panicked
    next_id,    \* the documents constructed so far
    started,    \* the loads started so far
    lost        \* the documents whose load result went to no or another one

\* the state of a parse_response run and the state of a GemTextParser
pvars == <<input, pos, line, pc, fam, digit, has_msg, acc, typ, mime, result>>
gvars == <<str, line_iter, line_num, cursor, mode, b, doc, first>>
\* the state of a TlsClient and of a Document
tvars == <<host, conn, tpc, handshaking, pending, plain, avail, close_notify,
           queued, sent, call, buf, calls, handed, after_hand, failed,
           after_fail, ret>>
dvars == <<state, history, tasks, inbox>>
wvars == <<documents, document_cursor, loads, crashed, next_id, started, lost>>
cvars == <<tvars, dvars, wvars>>
vars == <<pvars, gvars, cvars>>

\* no TlsClient has been asked for
NoTls ==
    /\ host = <<>>
    /\ conn = "none"
    /\ tpc = "idle"
    /\ handshaking = FALSE
    /\ pending = 0
    /\ plain = 0
    /\ avail = 0
    /\ close_notify = FALSE
    /\ queued = 0
    /\ sent = 0
    /\ call = "none"
    /\ buf = 0
    /\ calls = 0
    /\ handed = NoneV
    /\ after_hand = 0
    /\ failed = FALSE
    /\ after_fail = 0
    /\ ret = NoneV

\* no Document has been constructed
NoDocument ==
    /\ state = [tag |-> "None"]
    /\ history = <<>>
    /\ tasks = {}
    /\ inbox = <<>>

\* no GeminiRootWindow has been constructed
NoWindow ==
    /\ documents = <<>>
    /\ document_cursor = 0
    /\ loads = {}
    /\ crashed = FALSE
    /\ next_id = 0
    /\ started = 0
    /\ lost = {}

NoClient == NoTls /\ NoDocument /\ NoWindow

NoMime == [typ |-> <<>>, sub |-> <<>>, parameters |-> NoneV]

\* iter.next() would return None
AtEnd == pos = Len(input)
\* the character iter.next() returns when it returns Some
Cur == input[pos + 1]
\* Parser::peek
Peek == IF AtEnd THEN NUL ELSE Cur
\* self.line after a consumed character c
LineAfter(c) == IF c = LF THEN line + 1 ELSE line

\* the return of an error built by make_err
Fail(l, kind) ==
    /\ pc' = "done"
    /\ result' = Err(l, kind)

\* a faulty eat_char: the end of the input is reported as a bad digit
EatCharAtEndAsDigit(l) == Err(l, InvalidDigit)

\* a faulty eat_char: the exhausted iterator is unwrapped
EatCharAtEndPanics(l) == [tag |-> "Panic", line |-> l]

\* Parser::eat_char on an exhausted iterator: the error of its ok_or
EatCharAtEnd(l) == Err(l, SyntaxExpectedData)

\* the return of eat_char's error through the ? of its callers
FailAtEnd ==
    /\ pc' = "done"
    /\ result' = EatCharAtEnd(line)

(***************************************************************************)
(* Parser::reply: eat_char and the dispatch on the first character.        *)
(***************************************************************************)
Families == {"1", "2", "3", "4", "5", "6"}

\* the error of the last arm of reply's match
ReplyInvalid(c, l) == Err(l, InvalidStatus(IF IsDigit(c) THEN DigitVal(c) ELSE 0))

Reply ==
    /\ pc = "reply"
    /\ IF AtEnd
       THEN /\ FailAtEnd
            /\ UNCHANGED <<pos, line, fam>>
       ELSE /\ pos' = pos + 1
            /\ line' = LineAfter(Cur)
            /\ IF Cur \in Families
               THEN /\ fam' = Cur
                    /\ pc' = "digit"
                    /\ UNCHANGED result
               ELSE /\ pc' = "done"
                    /\ result' = ReplyInvalid(Cur, LineAfter(Cur))
                    /\ UNCHANGED fam
    /\ UNCHANGED <<input, digit, has_msg, acc, typ, mime>>
    /\ UNCHANGED gvars
    /\ UNCHANGED cvars

(***************************************************************************)
(* Parser::eat_digit, the first call of every family handler.              *)
(***************************************************************************)
\* what the handler of family f calls after eat_digit
AfterDigit(f) == IF f \in {"1", "2", "3"} THEN "sp" ELSE "msg"

EatDigit ==
    /\ pc = "digit"
    /\ IF AtEnd
       THEN /\ FailAtEnd
            /\ UNCHANGED <<pos, line, digit>>
       ELSE /\ pos' = pos + 1
            /\ line' = LineAfter(Cur)
            /\ IF IsDigit(Cur)
               THEN /\ digit' = DigitVal(Cur)
                    /\ pc' = AfterDigit(fam)
                    /\ UNCHANGED result
               ELSE /\ Fail(LineAfter(Cur), InvalidDigit)
                    /\ UNCHANGED digit
    /\ UNCHANGED <<input, fam, has_msg, acc, typ, mime>>
    /\ UNCHANGED gvars
    /\ UNCHANGED cvars

(***************************************************************************)
(* Parser::eat_sp as called by input, success and redirect.                *)
(***************************************************************************)
\* what the handler of family f calls after eat_sp
AfterSp(f) == IF f = "2" THEN "typ" ELSE "crlf"

EatSp ==
    /\ pc = "sp"
    /\ IF AtEnd
       THEN /\ FailAtEnd
            /\ UNCHANGED <<pos, line>>
       ELSE /\ pos' = pos + 1
            /\ line' = LineAfter(Cur)
            /\ IF Cur # SP
               THEN Fail(LineAfter(Cur), SyntaxMissingSpace)
               ELSE /\ pc' = AfterSp(fam)
                    /\ UNCHANGED result
    /\ UNCHANGED <<input, fam, digit, has_msg, acc, typ, mime>>
    /\ UNCHANGED gvars
    /\ UNCHANGED cvars

(***************************************************************************)
(* Parser::read_error_msg as called by tempfail, permfail and auth: the    *)
(* peek and, on a space, eat_sp.                                           *)
(***************************************************************************)
\* a faulty read_error_msg: a message is expected unless the line ends
MsgFollowsUnlessCr(c) == c # CR

\* the test of read_error_msg on the peeked character
MsgFollows(c) == c = SP

ReadErrorMsg ==
    /\ pc = "msg"
    /\ IF MsgFollows(Peek)
       THEN \* self.eat_sp()?
            IF AtEnd
            THEN /\ FailAtEnd
                 /\ UNCHANGED <<pos, line, has_msg>>
            ELSE /\ pos' = pos + 1
                 /\ line' = LineAfter(Cur)
                 /\ IF Cur # SP
                    THEN /\ Fail(LineAfter(Cur), SyntaxMissingSpace)
                         /\ UNCHANGED has_msg
                    ELSE /\ has_msg' = TRUE
                         /\ pc' = "crlf"
                         /\ UNCHANGED result
       ELSE /\ has_msg' = FALSE
            /\ pc' = "match"
            /\ UNCHANGED <<pos, line, result>>
    /\ UNCHANGED <<input, fam, digit, acc, typ, mime>>
    /\ UNCHANGED gvars
    /\ UNCHANGED cvars

(***************************************************************************)
(* Parser::eat_until_crlf: one iteration of its while loop.                *)
(***************************************************************************)
EatUntilCrlf ==
    /\ pc = "crlf"
    /\ IF AtEnd
       THEN /\ pc' = "match"
            /\ UNCHANGED <<pos, line, acc>>
       ELSE /\ line' = LineAfter(Cur)
            /\ IF Cur = CR
               THEN IF pos + 1 = Len(input)
                    THEN \* the inner iter.next() returns None
                         /\ pos' = pos + 1
                         /\ acc' = Append(acc, CR)
                         /\ pc' = "crlf"
                    ELSE \* the inner iter.next() takes the character after '\r'
                         /\ pos' = pos + 2
                         /\ IF input[pos + 2] = LF
                            THEN /\ pc' = "match"
                                 /\ UNCHANGED acc
                            ELSE /\ acc' = Append(acc, CR)
                                 /\ pc' = "crlf"
               ELSE /\ pos' = pos + 1
                    /\ acc' = Append(acc, Cur)
                    /\ pc' = "crlf"
    /\ UNCHANGED <<input, fam, digit, has_msg, typ, mime, result>>
    /\ UNCHANGED gvars
    /\ UNCHANGED cvars

(***************************************************************************)
(* The match on the second digit that ends input, redirect, tempfail,      *)
(* permfail and auth.                                                      *)
(***************************************************************************)
\* a faulty read_error_msg: an empty message is returned as None
ErrorMsgEmptyIsNone == IF has_msg /\ acc # <<>> THEN Some(acc) ELSE NoneV

\* Option<String> returned by read_error_msg
ErrorMsg == IF has_msg THEN Some(acc) ELSE NoneV

FamilyMatch(f, c, l) ==
    CASE f = "1" -> InputMatch(c, acc, l)
      [] f = "3" -> RedirectMatch(c, acc, l)
      [] f = "4" -> TempfailMatch(c, ErrorMsg, l)
      [] f = "5" -> PermfailMatch(c, ErrorMsg, l)
      [] f = "6" -> AuthMatch(c, ErrorMsg, l)

Match ==
    /\ pc = "match"
    /\ pc' = "done"
    /\ result' = FamilyMatch(fam, digit, line)
    /\ UNCHANGED <<input, pos, line, fam, digit, has_msg, acc, typ, mime>>
    /\ UNCHANGED gvars
    /\ UNCHANGED cvars

(***************************************************************************)
(* Parser::mimetype: eat_until(|c| c == '/'), eat_until(|c| c == '\r'),    *)
(* one iteration of the loop of eat_until per step, then the parameters.   *)
(***************************************************************************)
EatType ==
    /\ pc = "typ"
    /\ IF AtEnd
       THEN /\ typ' = acc
            /\ acc' = <<>>
            /\ pc' = "sub"
            /\ UNCHANGED <<pos, line>>
       ELSE /\ pos' = pos + 1
            /\ line' = LineAfter(Cur)
            /\ IF Cur = "/"
               THEN /\ typ' = acc
                    /\ acc' = <<>>
                    /\ pc' = "sub"
               ELSE /\ acc' = Append(acc, Cur)
                    /\ UNCHANGED <<typ, pc>>
    /\ UNCHANGED <<input, fam, digit, has_msg, mime, result>>
    /\ UNCHANGED gvars
    /\ UNCHANGED cvars

EatSubtype ==
    /\ pc = "sub"
    /\ IF AtEnd
       THEN /\ mime' = MimeTypeOf(typ, acc)
            /\ acc' = <<>>
            /\ pc' = "newline"
            /\ UNCHANGED <<pos, line>>
       ELSE /\ pos' = pos + 1
            /\ line' = LineAfter(Cur)
            /\ IF Cur = CR
               THEN /\ mime' = MimeTypeOf(typ, acc)
                    /\ acc' = <<>>
                    /\ pc' = "newline"
               ELSE /\ acc' = Append(acc, Cur)
                    /\ UNCHANGED <<mime, pc>>
    /\ UNCHANGED <<input, fam, digit, has_msg, typ, result>>
    /\ UNCHANGED gvars
    /\ UNCHANGED cvars

(***************************************************************************)
(* Parser::success after mimetype: the peek for '\n' and eat_char.         *)
(***************************************************************************)
\* the test of success on the peeked character
NewlineFollows(c) == c = LF

SuccessNewline ==
    /\ pc = "newline"
    /\ IF ~NewlineFollows(Peek)
       THEN /\ Fail(line, SyntaxMissingNewline)
            /\ UNCHANGED <<pos, line>>
       ELSE /\ pos' = pos + 1
            /\ line' = LineAfter(Cur)
            /\ pc' = "body"
            /\ UNCHANGED result
    /\ UNCHANGED <<input, fam, digit, has_msg, acc, typ, mime>>
    /\ UNCHANGED gvars
    /\ UNCHANGED cvars

(***************************************************************************)
(* Parser::success: eat_until(|_| false), one character per step, and at   *)
(* the end of the input parse_gemtext(body) and the return.                *)
(***************************************************************************)
\* Ok(Response::Success(..)), or the ParserError a GemTextError converts to
SuccessResult(m, body) ==
    LET g == ParseGemtext(body) IN
    IF g.ok
    THEN Ok("Success", [mime |-> m, body |-> g.lines])
    ELSE Err(g.line, InvalidBody([line |-> g.line, kind |-> g.kind]))

EatBody ==
    /\ pc = "body"
    /\ IF AtEnd
       THEN /\ pc' = "done"
            /\ result' = SuccessResult(mime, acc)
            /\ UNCHANGED <<pos, line, acc>>
       ELSE /\ pos' = pos + 1
            /\ line' = LineAfter(Cur)
            /\ acc' = Append(acc, Cur)
            /\ UNCHANGED <<pc, result>>
    /\ UNCHANGED <<input, fam, digit, has_msg, typ, mime>>
    /\ UNCHANGED gvars
    /\ UNCHANGED cvars

(***************************************************************************)
(* The replies the parser is run on: every short reply over TailChars      *)
(* behind every status prefix, framed status lines, and success replies    *)
(* built from the MIME types and bodies of the tests and their variants.   *)
(***************************************************************************)
TailChars == {SP, CR, LF, "a", "/"}

\* every string over TailChars of length at most n
Strings(n) == UNION {[1..k -> TailChars] : k \in 0..n}

Prefixes ==
    {<<>>} \cup {<<d>> : d \in DigitChars}
           \cup {<<d1, d2>> : d1 \in DigitChars, d2 \in DigitChars}

ShortReplies == {p \o t : p \in Prefixes, t \in Strings(MaxTail)}

msg_not_found == <<"n", "o", "t", SP, "f", "o", "u", "n", "d">>
msg_url == <<"g", "e", "m", "i", "n", "m", "i", ":", "/", "/", "l", "o", "c", "a", "l", "h", "o", "s", "t", "/", "f", "o", "o">>
typ_text == <<"t", "e", "x", "t">>
sub_gemini == <<"g", "e", "m", "i", "n", "i">>
sub_two_params == <<"g", "e", "m", "i", "n", "i", ";", SP, "l", "a", "n", "g", "=", "z", "h", "-", "C", "N", ";", SP, "c", "h", "a", "r", "s", "e", "t", "=", "u", "t", "f", "-", "8">>
sub_unknown_param == <<"g", "e", "m", "i", "n", "i", ";", SP, "f", "o", "o", "=", "b", "a", "r">>
sub_dup_param == <<"g", "e", "m", "i", "n", "i", ";", "c", "h", "a", "r", "s", "e", "t", "=", "u", "t", "f", "-", "8", ";", "c", "h", "a", "r", "s", "e", "t", "=", "x">>
sub_no_value == <<"g", "e", "m", "i", "n", "i", ";", SP, "l", "a", "n", "g">>
sub_key_first == <<"l", "a", "n", "g", "=", "e", "n">>
sub_two_equals == <<"g", ";", "l", "a", "n", "g", "=", "a", "=", "b">>
sub_case == <<"g", ";", SP, "L", "a", "n", "g", "=", "x", ";", "l", "a", "n", "g", SP, "=", SP, "y", SP>>
sub_semicolon == <<"g", "e", "m", "i", "n", "i", ";">>
sub_hello == <<"g", "e", "m", "i", "n", "i", SP, "H", "e", "l", "l", "o", ",", SP, "W", "o", "r", "l", "d", "!">>
sub_lf == <<"g", LF, "x">>
body_two_lines == <<"H", "e", "l", "l", "o", ",", SP, "W", "o", "r", "l", "d", "!", LF, "S", "o", "m", "e", "D", "a", "t", "a", LF>>
body_no_url == <<"=", ">", SP, LF>>
body_no_url_2 == <<"a", CR, LF, "=", ">">>
body_link == <<"#", SP, "h", LF, "=", ">", SP, "x", SP, "y", LF>>
body_pre == <<BACKTICK, BACKTICK, BACKTICK, LF, "*", SP, "i", LF, ">", "q", LF, BACKTICK, BACKTICK, BACKTICK>>

Messages == Strings(MaxTail - 1) \cup {msg_not_found, msg_url}

\* "NN m\r\n" and what may follow it
FramedReplies ==
    {<<d1, d2, SP>> \o m \o CRLF \o r :
        d1 \in DigitChars, d2 \in DigitChars, m \in Messages, r \in {<<>>, <<"a">>}}

Types == {typ_text, <<>>, <<"a", LF>>}
Subtypes ==
    {sub_gemini, sub_two_params, sub_unknown_param, sub_dup_param, sub_no_value,
     sub_key_first, sub_two_equals, sub_case, sub_semicolon, sub_hello, sub_lf, <<>>}
Terminators == {CRLF, <<CR>>, <<LF>>, <<>>, <<CR, "a">>}
Bodies == {<<>>, body_two_lines, body_no_url, body_no_url_2, body_link, body_pre}

\* "2d <type>/<subtype>[;params]" with a terminator and a body
SuccessReplies ==
    {<<"2", d, SP>> \o t \o <<"/">> \o s \o e \o text :
        d \in {"0", "1", "9"}, t \in Types, s \in Subtypes, e \in Terminators,
        text \in Bodies}

\* the replies of the tests that are in no set above
reply_missing_space == <<"2", "0">> \o typ_text \o <<"/">> \o sub_gemini \o CRLF
reply_invalid_digit == <<"2", "a", "0", SP>> \o typ_text \o <<"/">> \o sub_gemini \o CRLF
reply_unterminated == <<"5", "1", SP>> \o msg_not_found
TestReplies == {reply_missing_space, reply_invalid_digit, reply_unterminated}

Inputs == ShortReplies \cup FramedReplies \cup SuccessReplies \cup TestReplies

\* no GemTextParser of its own: Parser::success runs parse_gemtext within
\* its step (SuccessResult)
NoGemtext ==
    /\ str = <<>>
    /\ line_iter = <<>>
    /\ line_num = 0
    /\ cursor = <<>>
    /\ mode = "Normal"
    /\ b = <<>>
    /\ doc = NoResult
    /\ first = NoResult

(***************************************************************************)
(* parse_response: Parser { iter: response.chars(), line: 1 }, then        *)
(* reply().                                                                *)
(***************************************************************************)
Init ==
    /\ input \in Inputs
    /\ pos = 0
    /\ line = 1
    /\ pc = "reply"
    /\ fam = NUL
    /\ digit = 0
    /\ has_msg = FALSE
    /\ acc = <<>>
    /\ typ = <<>>
    /\ mime = NoMime
    /\ result = NoResult
    /\ NoGemtext
    /\ NoClient

Next ==
    \/ Reply
    \/ EatDigit
    \/ EatSp
    \/ ReadErrorMsg
    \/ EatUntilCrlf
    \/ Match
    \/ EatType
    \/ EatSubtype
    \/ SuccessNewline
    \/ EatBody

Spec == Init /\ [][Next]_vars

(***************************************************************************)
(* Part 2: parse_gemtext on its own (crates/protocol/src/gemtext), as the  *)
(* client calls it: GemTextParser::new, then gemtext_document, one         *)
(* iteration of its loop over the lines per step.                          *)
(***************************************************************************)
\* no parse_response run
NoResponse ==
    /\ input = <<>>
    /\ pos = 0
    /\ line = 1
    /\ pc = "idle"
    /\ fam = NUL
    /\ digit = 0
    /\ has_msg = FALSE
    /\ acc = <<>>
    /\ typ = <<>>
    /\ mime = NoMime
    /\ result = NoResult

\* the handler gemtext_line calls for a line: the first prefix that matches
HandlerOf(l) ==
    IF StartsWith(l, LINK_START) THEN "link_line"
    ELSE IF StartsWith(l, PREFORMAT_TOGGLE) THEN "preformat_toggle"
    ELSE IF StartsWith(l, HEADING_START) THEN "heading"
    ELSE IF StartsWith(l, LIST_ITEM) THEN "list_item"
    ELSE IF StartsWith(l, QUOTE_START) THEN "quote_line"
    ELSE "text_line"

\* a faulty loop: a line that fails is left out and the loop goes on
IterationSkipping(h) ==
    /\ doc = NoResult
    /\ line_num < Len(line_iter)
    /\ HandlerOf(line_iter[line_num + 1]) = h
    /\ line_num' = line_num + 1
    /\ cursor' = line_iter[line_num + 1]
    /\ LET r == GemtextLine(cursor', mode, line_num') IN
       IF "err" \in DOMAIN r.line
       THEN UNCHANGED <<b, mode, doc>>
       ELSE /\ b' = Append(b, r.line)
            /\ mode' = r.mode
            /\ UNCHANGED doc
    /\ UNCHANGED <<str, line_iter, first, pvars, cvars>>

\* one iteration of the loop of gemtext_document, on a line that gemtext_line
\* hands to handler h: the line is pushed to b, or its error returned by the ?
Iteration(h) ==
    /\ doc = NoResult
    /\ line_num < Len(line_iter)
    /\ HandlerOf(line_iter[line_num + 1]) = h
    /\ line_num' = line_num + 1
    /\ cursor' = line_iter[line_num + 1]
    /\ LET r == GemtextLine(cursor', mode, line_num') IN
       IF "err" \in DOMAIN r.line
       THEN /\ doc' = [ok |-> FALSE, line |-> r.line.line, kind |-> r.line.err]
            /\ UNCHANGED <<b, mode>>
       ELSE /\ b' = Append(b, r.line)
            /\ mode' = r.mode
            /\ UNCHANGED doc
    /\ UNCHANGED <<str, line_iter, first, pvars, cvars>>

OnLinkLine == Iteration("link_line")
OnPreformatToggle == Iteration("preformat_toggle")
OnHeading == Iteration("heading")
OnListItem == Iteration("list_item")
OnQuoteLine == Iteration("quote_line")
OnTextLine == Iteration("text_line")

\* the end of the loop: Ok(b)
GemtextDocumentReturn ==
    /\ doc = NoResult
    /\ line_num = Len(line_iter)
    /\ doc' = [ok |-> TRUE, lines |-> b]
    /\ UNCHANGED <<str, line_iter, line_num, cursor, mode, b, first, pvars, cvars>>

(***************************************************************************)
(* The texts parse_gemtext is run on: every line made of a line prefix and *)
(* a short tail over GemTailChars, with each line ending, and every        *)
(* document of up to MaxLines of the lines of DocLines.                    *)
(***************************************************************************)
GemTailChars == {SP, TAB, CR, "a", ":", "/"}
GemTails == UNION {[1..k -> GemTailChars] : k \in 0..MaxLineTail}

Hashes(n) == [i \in 1..n |-> "#"]
LinePrefixes ==
    {<<>>, LINK_START, PREFORMAT_TOGGLE, LIST_ITEM, QUOTE_START}
        \cup {Hashes(n) : n \in 1..MaxDepth}

LineEndings == {<<>>, <<LF>>, CRLF}
OneLineTexts == {p \o t \o e : p \in LinePrefixes, t \in GemTails, e \in LineEndings}

line_link_faq == <<"=", ">", SP, "f", "a", "q", ".", "g", "m", "i", SP, "R", "e", "a", "d", SP, "t", "h", "e", SP, "F", "A", "Q">>
line_link_test == <<"=", ">", SP, SP, SP, TAB, CR, SP, "g", "e", "m", "i", "n", "i", ":", "/", "/", "g", "e", "m", "i", "n", "i", ".", "c", "i", "r", "c", "u", "m", "l", "u", "n", "a", "r", ".", "s", "p", "a", "c", "e", "/", "d", "o", "c", "s", "/", "f", "a", "q", ".", "g", "m", "i", SP>>
line_link_docs == <<"=", ">", SP, "d", "o", "c", "s", "/", SP, SP, SP, SP, SP, SP, SP, SP, "P", "r", "o", "j", "e", "c", "t", SP, "G", "e", "m", "i", "n", "i", SP, "d", "o", "c", "u", "m", "e", "n", "t", "a", "t", "i", "o", "n">>
line_link_missing_url == <<"=", ">", SP>>
line_heading == <<"#", "#", SP, "G", "e", "m", "i", "n", "i", SP, "i", "n", SP, "1", "0", "0", SP, "w", "o", "r", "d", "s">>
line_list_item == <<"*", SP, "i", "t", "e", "m">>
line_quote == <<">", SP, "q", "u", "o", "t", "e", "d">>
line_text == <<"H", "e", "l", "l", "o", ",", SP, "W", "o", "r", "l", "d", "!">>
DocLines ==
    {<<>>, line_text, line_heading, line_link_faq, line_link_test,
     line_link_docs, line_link_missing_url, PREFORMAT_TOGGLE, line_list_item, line_quote}

\* the lines of ls, each ended by '\n'
RECURSIVE JoinLines(_)
JoinLines(ls) == IF ls = <<>> THEN <<>> ELSE Head(ls) \o <<LF>> \o JoinLines(Tail(ls))

Documents == {JoinLines(ls) : ls \in UNION {[1..k -> DocLines] : k \in 0..MaxLines}}

\* lines in which one line prefix is followed by another
Markers == {LINK_START, PREFORMAT_TOGGLE, HEADING_START, LIST_ITEM, QUOTE_START}
MixedLines == {p \o q \o e : p \in Markers, q \in Markers, e \in LineEndings}

\* the number of values of a u8, the type of Heading.depth
U8Values == 256
\* heading lines with as many '#' as a u8 has values, and one more
LongHeadings == {Hashes(U8Values), Hashes(U8Values + 1) \o <<SP, "a">>}

GemInputs == OneLineTexts \cup MixedLines \cup LongHeadings \cup Documents

\* parse_gemtext: GemTextParser::new(url_path, &str), then gemtext_document
GemInit ==
    /\ str \in GemInputs
    /\ line_iter = Lines(str)
    /\ line_num = 0
    /\ cursor = <<>>
    /\ mode = "Normal"
    /\ b = <<>>
    /\ doc = NoResult
    /\ first = NoResult
    /\ NoResponse
    /\ NoClient

GemNext ==
    \/ OnLinkLine
    \/ OnPreformatToggle
    \/ OnHeading
    \/ OnListItem
    \/ OnQuoteLine
    \/ OnTextLine
    \/ GemtextDocumentReturn

GemSpec == GemInit /\ [][GemNext]_vars

(***************************************************************************)
(* parse_gemtext called a second time on the same text: each call makes    *)
(* its own GemTextParser.                                                  *)
(***************************************************************************)
\* a faulty GemTextParser::new: the mode of the parser before is kept
NewKeepsMode ==
    /\ line_iter' = Lines(str')
    /\ line_num' = 0
    /\ cursor' = <<>>
    /\ mode' = mode
    /\ b' = <<>>

\* GemTextParser::new(url_path, &str): the fields of the new parser
New ==
    /\ line_iter' = Lines(str')
    /\ line_num' = 0
    /\ cursor' = <<>>
    /\ mode' = "Normal"
    /\ b' = <<>>

\* the second call, once the first has returned
ParseGemtextAgain ==
    /\ doc # NoResult
    /\ first = NoResult
    /\ first' = doc
    /\ doc' = NoResult
    /\ str' = str
    /\ New
    /\ UNCHANGED <<pvars, cvars>>

TwiceNext ==
    \/ OnLinkLine
    \/ OnPreformatToggle
    \/ OnHeading
    \/ OnListItem
    \/ OnQuoteLine
    \/ OnTextLine
    \/ GemtextDocumentReturn
    \/ ParseGemtextAgain

TwiceSpec == GemInit /\ [][TwiceNext]_vars

(***************************************************************************)
(* Part 3: TlsClient, the blocking TLS transport of the client.            *)
(*                                                                         *)
(* The session is rustls::ClientConnection, modelled by the contract of    *)
(* the methods TlsClient calls.  Ciphertext is counted in records:         *)
(* pending holds the records the session wants to write, avail the socket  *)
(* reads that still return data before the peer's end-of-file.             *)
(***************************************************************************)
svars == <<handshaking, pending, plain, avail, close_notify, queued, sent>>

\* the characters of an enumerated host string
HostChars == {"a", ".", SP}
Hosts == UNION {[1..k -> HostChars] : k \in 0..MaxHost}

\* ServerName::try_from(host) returns Ok: host is a DNS name (non-empty
\* labels of name characters separated by '.')
IsServerName(h) ==
    /\ h # <<>>
    /\ \A i \in 1..Len(h) : h[i] \in {"a", "."}
    /\ h[1] # "."
    /\ \A i \in 1..(Len(h) - 1) : ~(h[i] = "." /\ h[i + 1] = ".")

\* format!("{}:{}", host, port).to_socket_addrs(): Err, an iterator with no
\* address, or an iterator with an address; a host with a space in it
\* names nothing
ToSocketAddrsOutcomes(h) ==
    IF \E i \in 1..Len(h) : h[i] = SP THEN {"Err"} ELSE {"Err", "Empty", "Addr"}

\* new_from_host returns Err(e)
ConstructionFails(e) ==
    /\ conn' = e
    /\ tpc' = "closed"

\* new_from_host is called with addr.0 = h
NewFromHost(h) ==
    /\ tpc = "idle"
    /\ conn = "none"
    /\ host' = h
    /\ tpc' = "resolve"
    /\ UNCHANGED <<conn, svars, call, buf, calls, handed, after_hand, failed,
                   after_fail, ret>>
    /\ UNCHANGED <<pvars, gvars, dvars, wvars>>

\* to_socket_addrs()?.next().ok_or(NetworkError::InvalidAddress)?
ToSocketAddrs ==
    /\ tpc = "resolve"
    /\ \E o \in ToSocketAddrsOutcomes(host) :
        CASE o = "Err" -> ConstructionFails("IoError")
          [] o = "Empty" -> ConstructionFails("InvalidAddress")
          [] o = "Addr" -> tpc' = "connect" /\ UNCHANGED conn
    /\ UNCHANGED <<host, svars, call, buf, calls, handed, after_hand, failed,
                   after_fail, ret>>
    /\ UNCHANGED <<pvars, gvars, dvars, wvars>>

\* TcpStream::connect(addr)?
Connect ==
    /\ tpc = "connect"
    /\ \E ok \in BOOLEAN :
        IF ok THEN tpc' = "server_name" /\ UNCHANGED conn
        ELSE ConstructionFails("IoError")
    /\ UNCHANGED <<host, svars, call, buf, calls, handed, after_hand, failed,
                   after_fail, ret>>
    /\ UNCHANGED <<pvars, gvars, dvars, wvars>>

\* ServerName::try_from(host).map_err(|_| NetworkError::InvalidAddress)?
ServerNameTryFrom ==
    /\ tpc = "server_name"
    /\ IF IsServerName(host) THEN tpc' = "session" /\ UNCHANGED conn
       ELSE ConstructionFails("InvalidAddress")
    /\ UNCHANGED <<host, svars, call, buf, calls, handed, after_hand, failed,
                   after_fail, ret>>
    /\ UNCHANGED <<pvars, gvars, dvars, wvars>>

\* TlsClient::new: ClientConnection::new(tls_config, server_name)?  A new
\* session is handshaking and holds its ClientHello; the peer will deliver
\* n records of application data once the handshake is through.
TlsClientNew ==
    /\ tpc = "session"
    /\ \/ /\ ConstructionFails("TlsError")
          /\ UNCHANGED svars
       \/ \E n \in 0..MaxAvail :
            /\ conn' = "Ok"
            /\ tpc' = "ready"
            /\ handshaking' = TRUE
            /\ pending' = 1
            /\ queued' = 1
            /\ avail' = n
            /\ UNCHANGED <<plain, close_notify, sent>>
    /\ UNCHANGED <<host, call, buf, calls, handed, after_hand, failed,
                   after_fail, ret>>
    /\ UNCHANGED <<pvars, gvars, dvars, wvars>>

\* client_connection.wants_write()
WantsWrite == pending > 0
\* client_connection.wants_read()
WantsRead ==
    /\ plain = 0
    /\ ~close_notify
    /\ (~handshaking \/ pending = 0)

\* the session after a round of complete_io
Session(hs, pend, pl, av, cn, q, s) ==
    [handshaking |-> hs, pending |-> pend, plain |-> pl, avail |-> av,
     close_notify |-> cn, queued |-> q, sent |-> s]
SessionNow ==
    Session(handshaking, pending, plain, avail, close_notify, queued, sent)
\* what complete_io returns, with the session it leaves
Outcome(err, rd, wr, after) == [err |-> err, rd |-> rd, wr |-> wr, s |-> after]

\* client_connection.complete_io(&mut socket) on a blocking socket whose
\* peer stops sending after avail more reads.
\* Handshaking at entry: the round writes and reads until the handshake is
\* through, or fails (the peer closed, sent a malformed handshake, or the
\* socket failed).  Otherwise, with ciphertext to write: writes all of it
\* and reads nothing.  Otherwise, when the session wants to read: one read,
\* of no bytes once the peer has closed.  A protocol error sends its alert
\* within the failing round.
CompleteIo ==
    IF handshaking THEN
        { Outcome("none", 1, pending,
                  Session(FALSE, 0, plain, avail, close_notify, queued,
                          sent + pending)),
          Outcome("UnexpectedEof", 0, pending,
                  Session(TRUE, 0, plain, 0, close_notify, queued,
                          sent + pending)),
          Outcome("InvalidData", 1, pending,
                  Session(TRUE, 0, plain, avail, close_notify, queued + 1,
                          sent + pending + 1)),
          Outcome("Io", 0, 0, SessionNow) }
    ELSE IF WantsWrite THEN
        { Outcome("none", 0, pending,
                  Session(FALSE, 0, plain, avail, close_notify, queued,
                          sent + pending)),
          Outcome("Io", 0, 0, SessionNow) }
    ELSE IF WantsRead THEN
        IF avail > 0 THEN
            { Outcome("none", 1, 0,
                      Session(FALSE, 0, plain + 1, avail - 1, FALSE, queued,
                              sent)),
              Outcome("none", 1, 0,
                      Session(FALSE, 0, plain, avail - 1, FALSE, queued,
                              sent)),
              Outcome("none", 1, 0,
                      Session(FALSE, 0, plain, 0, TRUE, queued, sent)),
              Outcome("InvalidData", 1, 0,
                      Session(FALSE, 0, plain, avail - 1, FALSE, queued + 1,
                              sent + 1)),
              Outcome("Io", 0, 0, SessionNow) }
        ELSE
            { Outcome("none", 0, 0, SessionNow) }
    ELSE
        { Outcome("none", 0, 0, SessionNow) }

\* io::Result of a call
IoOk(c, n) == [of |-> c, ok |-> TRUE, val |-> n, err |-> "none"]
IoErr(c, e) == [of |-> c, ok |-> FALSE, val |-> 0, err |-> e]

\* the call returns r
Return(r) ==
    /\ ret' = Some(r)
    /\ call' = "none"
    /\ tpc' = "ready"
\* the `?` operator on an Err(e)
Throw(e) == Return(IoErr(call, e))
\* control passes to the statement l of the running call
GoTo(l) ==
    /\ tpc' = l
    /\ UNCHANGED <<call, ret>>

\* one complete_io round with the outcome o
Round(o) ==
    /\ handshaking' = o.s.handshaking
    /\ pending' = o.s.pending
    /\ plain' = o.s.plain
    /\ avail' = o.s.avail
    /\ close_notify' = o.s.close_notify
    /\ queued' = o.s.queued
    /\ sent' = o.s.sent
    /\ failed' = (failed \/ o.err # "none")
    /\ after_fail' = IF failed THEN after_fail + 1 ELSE after_fail
    /\ after_hand' = IF handed.some THEN after_hand + 1 ELSE after_hand
    /\ UNCHANGED <<host, conn, buf, calls, handed>>
\* a statement that runs no round
NoRound ==
    UNCHANGED <<host, conn, svars, buf, calls, handed, after_hand, failed,
                after_fail>>

\* a call of the method c starts, with a buf of n bytes
Enter(c, n) ==
    /\ tpc = "ready"
    /\ call = "none"
    /\ calls < MaxCalls
    /\ call' = c
    /\ buf' = n
    /\ calls' = calls + 1
    /\ tpc' = "cpio_hs"
    /\ handed' = NoneV
    /\ after_hand' = 0
    /\ failed' = FALSE
    /\ after_fail' = 0
    /\ ret' = NoneV
    /\ UNCHANGED <<host, conn, svars>>
    /\ UNCHANGED <<pvars, gvars, dvars, wvars>>

\* io::Read::read, io::Write::write, io::Write::flush are called
Read == Enter("read", 1)
Write == \E n \in 0..MaxBuf : Enter("write", n)
Flush == Enter("flush", 0)

\* complete_prior_io: if is_handshaking() { complete_io(&mut socket)?; }
CompletePriorIoHandshaking ==
    /\ tpc = "cpio_hs"
    /\ IF handshaking
       THEN \E o \in CompleteIo :
                /\ Round(o)
                /\ IF o.err # "none" THEN Throw(o.err) ELSE GoTo("cpio_wr")
       ELSE NoRound /\ GoTo("cpio_wr")
    /\ UNCHANGED <<pvars, gvars, dvars, wvars>>

\* the statement after complete_prior_io()? in the running call
AfterPriorIo ==
    CASE call = "read" -> "loop"
      [] call = "write" -> "writer"
      [] call = "flush" -> "wflush"

\* complete_prior_io that leaves the earlier ciphertext where it is
CompletePriorIoKeepsPending ==
    /\ tpc = "cpio_wr"
    /\ NoRound
    /\ GoTo(AfterPriorIo)
    /\ UNCHANGED <<pvars, gvars, dvars, wvars>>

\* complete_prior_io: if wants_write() { complete_io(&mut socket)?; } Ok(())
CompletePriorIoWantsWrite ==
    /\ tpc = "cpio_wr"
    /\ IF WantsWrite
       THEN \E o \in CompleteIo :
                /\ Round(o)
                /\ IF o.err # "none" THEN Throw(o.err) ELSE GoTo(AfterPriorIo)
       ELSE NoRound /\ GoTo(AfterPriorIo)
    /\ UNCHANGED <<pvars, gvars, dvars, wvars>>

\* prepare_read whose loop goes on after a round that read nothing
PrepareReadNoBreak ==
    /\ tpc = "loop"
    /\ IF WantsRead
       THEN \E o \in CompleteIo :
                /\ Round(o)
                /\ IF o.err # "none" THEN Throw(o.err) ELSE GoTo("loop")
       ELSE NoRound /\ GoTo("reader")
    /\ UNCHANGED <<pvars, gvars, dvars, wvars>>

\* prepare_read: while wants_read() { if complete_io(..)?.0 == 0 { break; } }
PrepareRead ==
    /\ tpc = "loop"
    /\ IF WantsRead
       THEN \E o \in CompleteIo :
                /\ Round(o)
                /\ IF o.err # "none" THEN Throw(o.err)
                   ELSE IF o.rd = 0 THEN GoTo("reader")
                   ELSE GoTo("loop")
       ELSE NoRound /\ GoTo("reader")
    /\ UNCHANGED <<pvars, gvars, dvars, wvars>>

\* read: reader().read(buf): a record of plaintext, Ok(0) after the peer's
\* close_notify, an Err when the session has neither
ReaderRead ==
    /\ tpc = "reader"
    /\ IF plain > 0
       THEN /\ plain' = plain - 1
            /\ Return(IoOk("read", 1))
            /\ UNCHANGED failed
       ELSE /\ UNCHANGED plain
            /\ IF close_notify
               THEN Return(IoOk("read", 0)) /\ UNCHANGED failed
               ELSE /\ Return(IoErr("read", IF avail = 0 THEN "UnexpectedEof"
                                            ELSE "WouldBlock"))
                    /\ failed' = TRUE
    /\ UNCHANGED <<host, conn, handshaking, pending, avail, close_notify,
                   queued, sent, buf, calls, handed, after_hand, after_fail>>
    /\ UNCHANGED <<pvars, gvars, dvars, wvars>>

\* write: let len = writer().write(buf)?  The writer takes buf, or less of
\* it when its buffer limit is reached, and queues what it took as a
\* record.
WriterWrite ==
    /\ tpc = "writer"
    /\ \E len \in 0..buf :
        /\ (buf > 0 => len > 0)
        /\ handed' = Some(len)
        /\ pending' = IF len > 0 THEN pending + 1 ELSE pending
        /\ queued' = IF len > 0 THEN queued + 1 ELSE queued
    /\ GoTo("attempt")
    /\ UNCHANGED <<host, conn, handshaking, plain, avail, close_notify, sent,
                   buf, calls, after_hand, failed, after_fail>>
    /\ UNCHANGED <<pvars, gvars, dvars, wvars>>

\* write whose flush attempt cannot fail the call
WriteCompleteIoMasked ==
    /\ tpc = "attempt"
    /\ \E o \in CompleteIo :
        /\ Round(o)
        /\ Return(IoOk("write", handed.val))
    /\ UNCHANGED <<pvars, gvars, dvars, wvars>>

\* write: let _ = complete_io(&mut socket)?; Ok(len)
WriteCompleteIo ==
    /\ tpc = "attempt"
    /\ \E o \in CompleteIo :
        /\ Round(o)
        /\ IF o.err # "none" THEN Throw(o.err)
           ELSE Return(IoOk("write", handed.val))
    /\ UNCHANGED <<pvars, gvars, dvars, wvars>>

\* flush: writer().flush()?
WriterFlush ==
    /\ tpc = "wflush"
    /\ NoRound
    /\ GoTo("fl_wr")
    /\ UNCHANGED <<pvars, gvars, dvars, wvars>>

\* flush: if wants_write() { complete_io(&mut socket)?; } Ok(())
FlushCompleteIo ==
    /\ tpc = "fl_wr"
    /\ IF WantsWrite
       THEN \E o \in CompleteIo :
                /\ Round(o)
                /\ IF o.err # "none" THEN Throw(o.err)
                   ELSE Return(IoOk("flush", 0))
       ELSE NoRound /\ Return(IoOk("flush", 0))
    /\ UNCHANGED <<pvars, gvars, dvars, wvars>>

TlsInit ==
    /\ NoResponse
    /\ NoGemtext
    /\ NoClient

\* the statements of a running call
TlsStep ==
    \/ CompletePriorIoHandshaking
    \/ CompletePriorIoWantsWrite
    \/ PrepareRead
    \/ ReaderRead
    \/ WriterWrite
    \/ WriteCompleteIo
    \/ WriterFlush
    \/ FlushCompleteIo

TlsNext ==
    \/ \E h \in Hosts : NewFromHost(h)
    \/ ToSocketAddrs
    \/ Connect
    \/ ServerNameTryFrom
    \/ TlsClientNew
    \/ Read
    \/ Write
    \/ Flush
    \/ TlsStep

TlsSpec == TlsInit /\ [][TlsNext]_vars

\* a call that has started runs on: the thread that made it is blocked in
\* it, and the peer sends what it sends and then closes
TlsFairSpec == TlsSpec /\ WF_vars(TlsStep)

(***************************************************************************)
(* Part 4: Document, a page of the client and the load that fills it.      *)
(*                                                                         *)
(* update runs on the thread of the user interface, one message at a time; *)
(* the future of load_document runs on the runtime, which turns its value  *)
(* into a LoadComplete message.  The transport and the parsers appear by   *)
(* their results.                                                          *)
(***************************************************************************)
\* the URLs of the model: Url::scheme and Url::host_str
gemini_url == [scheme |-> "gemini", host_str |-> Some(<<"h">>)]
gemini_no_host == [scheme |-> "gemini", host_str |-> NoneV]
file_url == [scheme |-> "file", host_str |-> NoneV]
about_url == [scheme |-> "about", host_str |-> NoneV]
Urls == {gemini_url, gemini_no_host, file_url, about_url}

\* DocumentState
Loading == [tag |-> "Loading"]
Loaded(u) == [tag |-> "Loaded", url |-> u]
ErrorState(u, response) == [tag |-> "Error", url |-> u, response |-> response]

\* a Response that is no Success, with the message it carries
Response(variant, msg) == [variant |-> variant, msg |-> msg]

\* the (Url, Result<LoadStatus, String>) of a LoadComplete message
LoadOk(u, status) == [url |-> u, ok |-> TRUE, what |-> status]
LoadErr(u, error) == [url |-> u, ok |-> FALSE, what |-> error]

\* a future of load_document(tls, u) about to run the statement at, with
\* the log of the calls it has made on its TlsClient
Future(u, at) == [url |-> u, at |-> at, log |-> <<>>]

\* load_new_page
LoadNewPage(u, should_save_history) ==
    /\ state' = Loading
    /\ history' = IF should_save_history THEN Append(history, u) ELSE history
    /\ tasks' = tasks \cup {Future(u, "load_document")}

\* can_go_back
CanGoBack == Len(history) > 1 /\ state.tag # "Loading"

\* a faulty try_go_back that loads the entry it removed
TryGoBackLoadsRemoved ==
    IF ~CanGoBack THEN UNCHANGED <<state, history, tasks>>
    ELSE /\ state' = Loading
         /\ history' = SubSeq(history, 1, Len(history) - 1)
         /\ tasks' = tasks \cup
                {Future(history[Len(history)], "load_document")}

\* a faulty try_go_back that pushes the entry it goes back to
TryGoBackPushesAgain ==
    IF ~CanGoBack THEN UNCHANGED <<state, history, tasks>>
    ELSE /\ state' = Loading
         /\ history' = Append(SubSeq(history, 1, Len(history) - 1),
                              history[Len(history) - 1])
         /\ tasks' = tasks \cup
                {Future(history[Len(history) - 1], "load_document")}

\* try_go_back
TryGoBack ==
    IF ~CanGoBack THEN UNCHANGED <<state, history, tasks>>
    ELSE /\ state' = Loading
         /\ history' = SubSeq(history, 1, Len(history) - 1)
         /\ tasks' = tasks \cup
                {Future(history[Len(history) - 1], "load_document")}

\* Document::new(tls_client, u)
DocumentNew(u) ==
    /\ state.tag = "None"
    /\ LoadNewPage(u, TRUE)
    /\ UNCHANGED inbox
    /\ UNCHANGED <<pvars, gvars, tvars, wvars>>

\* a faulty update that follows a link in every state
LinkPressedInAnyState(u) ==
    /\ state.tag # "None"
    /\ Len(history) < MaxHistory
    /\ LoadNewPage(u, TRUE)
    /\ UNCHANGED inbox
    /\ UNCHANGED <<pvars, gvars, tvars, wvars>>

\* update(DocumentMessage::LinkPressed(u))
LinkPressed(u) ==
    /\ state.tag # "None"
    /\ Len(history) < MaxHistory
    /\ IF state.tag = "Loaded" THEN LoadNewPage(u, TRUE)
       ELSE UNCHANGED <<state, history, tasks>>
    /\ UNCHANGED inbox
    /\ UNCHANGED <<pvars, gvars, tvars, wvars>>

\* update(DocumentMessage::NavigateUrl(u))
NavigateUrl(u) ==
    /\ state.tag # "None"
    /\ Len(history) < MaxHistory
    /\ IF state.tag \in {"Loaded", "Error"} THEN LoadNewPage(u, TRUE)
       ELSE UNCHANGED <<state, history, tasks>>
    /\ UNCHANGED inbox
    /\ UNCHANGED <<pvars, gvars, tvars, wvars>>

\* update(DocumentMessage::NavigateBack)
NavigateBack ==
    /\ state.tag # "None"
    /\ IF state.tag \in {"Loaded", "Error"} THEN TryGoBack
       ELSE UNCHANGED <<state, history, tasks>>
    /\ UNCHANGED inbox
    /\ UNCHANGED <<pvars, gvars, tvars, wvars>>

\* update(DocumentMessage::LoadComplete((url, r))), the oldest message the
\* runtime holds
LoadComplete ==
    /\ inbox # <<>>
    /\ inbox' = Tail(inbox)
    /\ LET m == Head(inbox) IN
       IF state.tag = "Loading"
       THEN state' = IF m.ok
                     THEN IF m.what = "Success" THEN Loaded(m.url)
                          ELSE ErrorState(m.url, Response(m.what, NoneV))
                     ELSE ErrorState(m.url, Response("PermanentFailure",
                                                     Some(m.what)))
       ELSE UNCHANGED state
    /\ UNCHANGED <<history, tasks>>
    /\ UNCHANGED <<pvars, gvars, tvars, wvars>>

\* the future f goes on at the statement at
Continue(f, at) ==
    /\ tasks' = (tasks \ {f}) \cup {[f EXCEPT !.at = at]}
    /\ UNCHANGED inbox
\* the future f has called op on its transport and goes on at at
Did(f, op, at) ==
    /\ tasks' = (tasks \ {f}) \cup
            {[f EXCEPT !.at = at, !.log = Append(f.log, op)]}
    /\ UNCHANGED inbox
\* the future f returns r: Task::perform wraps it in LoadComplete
Complete(f, r) ==
    /\ tasks' = tasks \ {f}
    /\ inbox' = Append(inbox, r)
\* an unwrap() of an Err in the future f: the future panics and yields
\* nothing
Panic(f) == Continue(f, "panicked")

\* load_document: match url.scheme()
LoadDocument ==
    /\ \E f \in tasks :
        /\ f.at = "load_document"
        /\ CASE f.url.scheme = "gemini" -> Continue(f, "host_str")
             [] f.url.scheme = "file" -> Continue(f, "load_file")
             [] OTHER -> Complete(f, LoadErr(f.url, "Unsupported scheme"))
    /\ UNCHANGED <<state, history>>
    /\ UNCHANGED <<pvars, gvars, tvars, wvars>>

\* load_gemini: url.host_str().ok_or("No host found")?
LoadGeminiHostStr ==
    /\ \E f \in tasks :
        /\ f.at = "host_str"
        /\ IF f.url.host_str.some THEN Continue(f, "new_from_host")
           ELSE Complete(f, LoadErr(f.url, "No host found"))
    /\ UNCHANGED <<state, history>>
    /\ UNCHANGED <<pvars, gvars, tvars, wvars>>

\* load_gemini: TlsClient::new_from_host(..).map_err(..)?
LoadGeminiNewFromHost ==
    /\ \E f \in tasks :
        /\ f.at = "new_from_host"
        /\ \E ok \in BOOLEAN :
            IF ok THEN Did(f, "new_from_host", "write")
            ELSE Complete(f, LoadErr(f.url, "Failed to connect"))
    /\ UNCHANGED <<state, history>>
    /\ UNCHANGED <<pvars, gvars, tvars, wvars>>

\* a faulty load_gemini that reads the reply before it writes the request
LoadGeminiReadsFirst ==
    /\ \E f \in tasks :
        /\ f.at = "write"
        /\ Did(f, "read_to_end", "panicked")
    /\ UNCHANGED <<state, history>>
    /\ UNCHANGED <<pvars, gvars, tvars, wvars>>

\* load_gemini: write!(conn, "{}\r\n", url.to_string()).unwrap()
LoadGeminiWrite ==
    /\ \E f \in tasks :
        /\ f.at = "write"
        /\ \E ok \in BOOLEAN :
            IF ok THEN Did(f, "write", "read_to_end")
            ELSE Did(f, "write", "panicked")
    /\ UNCHANGED <<state, history>>
    /\ UNCHANGED <<pvars, gvars, tvars, wvars>>

\* load_gemini: conn.read_to_end(&mut pt).unwrap()
LoadGeminiReadToEnd ==
    /\ \E f \in tasks :
        /\ f.at = "read_to_end"
        /\ \E ok \in BOOLEAN :
            IF ok THEN Did(f, "read_to_end", "parse_response")
            ELSE Did(f, "read_to_end", "panicked")
    /\ UNCHANGED <<state, history>>
    /\ UNCHANGED <<pvars, gvars, tvars, wvars>>

\* the replies parse_response tells apart for load_gemini: a Success, a
\* Response of another variant, an Err
ParseResponseOutcomes == {"Success", "Input", "Redirect", "TemporaryFailure",
                          "PermanentFailure", "Err"}

\* load_gemini: parse_response(&url, &pt).unwrap() and the returned
\* LoadStatus
LoadGeminiParseResponse ==
    /\ \E f \in tasks :
        /\ f.at = "parse_response"
        /\ \E r \in ParseResponseOutcomes :
            IF r = "Err" THEN Panic(f)
            ELSE Complete(f, LoadOk(f.url, r))
    /\ UNCHANGED <<state, history>>
    /\ UNCHANGED <<pvars, gvars, tvars, wvars>>

\* load_file: every failure is mapped to an Err(String)
LoadFile ==
    /\ \E f \in tasks :
        /\ f.at = "load_file"
        /\ \E r \in {LoadErr(f.url, "Failed to open file"),
                     LoadErr(f.url, "Failed to read file"),
                     LoadErr(f.url, "Failed to parse gemtext"),
                     LoadOk(f.url, "Success")} :
            Complete(f, r)
    /\ UNCHANGED <<state, history>>
    /\ UNCHANGED <<pvars, gvars, tvars, wvars>>

DocInit ==
    /\ NoResponse
    /\ NoGemtext
    /\ NoClient

\* the runtime polls a future
Poll ==
    \/ LoadDocument
    \/ LoadGeminiHostStr
    \/ LoadGeminiNewFromHost
    \/ LoadGeminiWrite
    \/ LoadGeminiReadToEnd
    \/ LoadGeminiParseResponse
    \/ LoadFile

DocNext ==
    \/ \E u \in Urls : DocumentNew(u)
    \/ \E u \in Urls : LinkPressed(u)
    \/ \E u \in Urls : NavigateUrl(u)
    \/ NavigateBack
    \/ LoadComplete
    \/ Poll

DocSpec == DocInit /\ [][DocNext]_vars

\* the runtime runs every future it was given until it returns or panics,
\* and delivers every message it holds
DocFairSpec == DocSpec /\ WF_vars(Poll) /\ WF_vars(LoadComplete)

(***************************************************************************)
(* Part 5: GeminiRootWindow, the tabs of the client.                       *)
(*                                                                         *)
(* A document of the window is kept by what the window can tell of it: an  *)
(* identity, the tag of its DocumentState, the length of its history and   *)
(* the identity of the document whose load its state came from.  The       *)
(* future of a load is kept with the index its closure captured.           *)
(***************************************************************************)
\* a Document right after load_new_page
Tab(id, entries) == [id |-> id, state |-> "Loading", entries |-> entries, by |-> id]
\* the task of a load started by the document id, mapped to the message
\* via(index, LoadComplete(..)), the n-th load the window started
Load(index, id, via, n) == [index |-> index, id |-> id, via |-> via, n |-> n]

\* GeminiRootWindow::new has run and update has not panicked
Running == next_id > 0 /\ ~crashed
\* self.documents.get_mut(index) is Some
InBounds(index) == index < Len(documents)
\* self.documents with the document at index replaced by d
WithTab(index, d) == [documents EXCEPT ![index + 1] = d]

\* GeminiRootWindow::new
WindowNew ==
    /\ next_id = 0
    /\ ~crashed
    /\ documents' = <<Tab(0, 1), Tab(1, 1)>>
    /\ document_cursor' = 0
    /\ loads' = {Load(0, 0, "DocumentHasLoaded", 0),
                 Load(1, 1, "DocumentHasLoaded", 1)}
    /\ next_id' = 2
    /\ started' = 2
    /\ UNCHANGED <<crashed, lost>>
    /\ UNCHANGED <<pvars, gvars, tvars, dvars>>

\* update(GeminiRootMessage::Search)
Search ==
    /\ Running
    /\ next_id < MaxDocs
    /\ started < MaxLoads
    /\ documents' = Append(documents, Tab(next_id, 1))
    /\ loads' = loads \cup
            {Load(Len(documents), next_id, "DocumentHasLoaded", started)}
    /\ next_id' = next_id + 1
    /\ started' = started + 1
    /\ UNCHANGED <<document_cursor, crashed, lost>>
    /\ UNCHANGED <<pvars, gvars, tvars, dvars>>

\* Document::update(LoadComplete(..)) on the document d, the load being l:
\* applied in the Loading state, ignored in the others
UpdateLoadComplete(d, l, ok) ==
    IF d.state = "Loading"
    THEN [d EXCEPT !.state = IF ok THEN "Loaded" ELSE "Error", !.by = l.id]
    ELSE d

\* the message of the load l is handled: the document at l.index, if there
\* is one, gets it; lost holds the documents whose result went elsewhere
HandleLoadComplete(l) ==
    /\ loads' = loads \ {l}
    /\ IF InBounds(l.index)
       THEN \E ok \in BOOLEAN :
              documents' = WithTab(l.index,
                    UpdateLoadComplete(documents[l.index + 1], l, ok))
       ELSE UNCHANGED documents
    /\ lost' = IF InBounds(l.index) /\ documents[l.index + 1].id = l.id
               THEN lost ELSE lost \cup {l.id}

\* update(GeminiRootMessage::DocumentHasLoaded(index, LoadComplete(..)))
DocumentHasLoaded(l) ==
    /\ Running
    /\ l \in loads
    /\ l.via = "DocumentHasLoaded"
    /\ HandleLoadComplete(l)
    /\ document_cursor' = IF InBounds(l.index) THEN l.index ELSE document_cursor
    /\ UNCHANGED <<crashed, next_id, started>>
    /\ UNCHANGED <<pvars, gvars, tvars, dvars>>

\* update(GeminiRootMessage::DocumentMessage(index, LoadComplete(..)))
DocumentMessageLoadComplete(l) ==
    /\ Running
    /\ l \in loads
    /\ l.via = "DocumentMessage"
    /\ HandleLoadComplete(l)
    /\ UNCHANGED <<document_cursor, crashed, next_id, started>>
    /\ UNCHANGED <<pvars, gvars, tvars, dvars>>

\* Document::update starts a load in the document at index, its history
\* changing by grow entries; the task is mapped to DocumentMessage(index, _)
StartLoad(index, grow) ==
    /\ started < MaxLoads
    /\ documents' = WithTab(index,
            [documents[index + 1] EXCEPT !.state = "Loading",
                                         !.entries = @ + grow])
    /\ loads' = loads \cup
            {Load(index, documents[index + 1].id, "DocumentMessage", started)}
    /\ started' = started + 1

\* update(GeminiRootMessage::DocumentMessage(index, LinkPressed(..)))
DocumentMessageLinkPressed(index) ==
    /\ Running
    /\ IF InBounds(index) /\ documents[index + 1].state = "Loaded"
       THEN /\ documents[index + 1].entries < MaxHistory
            /\ StartLoad(index, 1)
       ELSE UNCHANGED <<documents, loads, started>>
    /\ UNCHANGED <<document_cursor, crashed, next_id, lost>>
    /\ UNCHANGED <<pvars, gvars, tvars, dvars>>

\* update(GeminiRootMessage::UserWishesToNavigateDocument)
UserWishesToNavigateDocument ==
    /\ Running
    /\ IF InBounds(document_cursor)
          /\ documents[document_cursor + 1].state \in {"Loaded", "Error"}
       THEN /\ documents[document_cursor + 1].entries < MaxHistory
            /\ StartLoad(document_cursor, 1)
       ELSE UNCHANGED <<documents, loads, started>>
    /\ UNCHANGED <<document_cursor, crashed, next_id, lost>>
    /\ UNCHANGED <<pvars, gvars, tvars, dvars>>

\* update(GeminiRootMessage::DocumentGoBack)
DocumentGoBack ==
    /\ Running
    /\ IF InBounds(document_cursor)
          /\ documents[document_cursor + 1].state \in {"Loaded", "Error"}
          /\ documents[document_cursor + 1].entries > 1
       THEN StartLoad(document_cursor, -1)
       ELSE UNCHANGED <<documents, loads, started>>
    /\ UNCHANGED <<document_cursor, crashed, next_id, lost>>
    /\ UNCHANGED <<pvars, gvars, tvars, dvars>>

\* update(GeminiRootMessage::ViewDocument(index))
ViewDocument(index) ==
    /\ Running
    /\ document_cursor' = IF InBounds(index) THEN index ELSE document_cursor
    /\ UNCHANGED <<documents, loads, crashed, next_id, started, lost>>
    /\ UNCHANGED <<pvars, gvars, tvars, dvars>>

\* Vec::remove(index) for an index in bounds
Remove(s, index) == SubSeq(s, 1, index) \o SubSeq(s, index + 2, Len(s))

\* update(GeminiRootMessage::CloseDocument(index)): Vec::remove panics for
\* an index that is not in bounds
CloseDocument(index) ==
    /\ Running
    /\ IF InBounds(index)
       THEN /\ documents' = Remove(documents, index)
            /\ document_cursor' =
                 IF document_cursor >= Len(documents) - 1
                 THEN (IF Len(documents) - 1 = 0 THEN 0 ELSE Len(documents) - 2)
                 ELSE document_cursor
            /\ UNCHANGED crashed
       ELSE /\ crashed' = TRUE
            /\ UNCHANGED <<documents, document_cursor>>
    /\ UNCHANGED <<loads, next_id, started, lost>>
    /\ UNCHANGED <<pvars, gvars, tvars, dvars>>

\* the indices a message of the window may carry, stale ones included
Indices == 0..MaxDocs

WinInit ==
    /\ NoResponse
    /\ NoGemtext
    /\ NoClient

WinNext ==
    \/ WindowNew
    \/ Search
    \/ \E l \in loads : DocumentHasLoaded(l)
    \/ \E l \in loads : DocumentMessageLoadComplete(l)
    \/ \E index \in Indices : DocumentMessageLinkPressed(index)
    \/ UserWishesToNavigateDocument
    \/ DocumentGoBack
    \/ \E index \in Indices : ViewDocument(index)
    \/ \E index \in Indices : CloseDocument(index)

WinSpec == WinInit /\ [][WinNext]_vars

(***************************************************************************)
(* Reading the state.                                                      *)
(***************************************************************************)
Done == pc = "done"
TypeOK ==
    /\ pos \in 0..Len(input)
    /\ line \in 1..(Len(input) + 1)
    /\ pc \in {"reply", "digit", "sp", "msg", "crlf", "match", "typ", "sub",
               "newline", "body", "done", "idle"}
    /\ line_num \in 0..Len(line_iter)
    /\ mode \in {"Normal", "Preformat"}
    /\ Len(b) <= line_num
    /\ digit \in 0..9
    /\ has_msg \in BOOLEAN
    /\ (result = NoResult) = (pc # "done")

(***************************************************************************)
(* Properties of parse_response.  They read the reply in input and the     *)
(* returned value in result, once pc = "done".                             *)
(***************************************************************************)
\* the reply starts with two digits; the code they write
HasStatus(s) == Len(s) >= 2 /\ IsDigit(s[1]) /\ IsDigit(s[2])
StatusCode(s) == 10 * DigitVal(s[1]) + DigitVal(s[2])

ValidCodes == {10, 11, 20, 30, 31, 40, 41, 42, 43, 44, 50, 51, 52, 53, 59, 60, 61, 62}
MessageCodes == {40, 41, 42, 43, 44, 50, 51, 52, 53, 59, 60, 61, 62}

\* the Response variant documented for a status code (response.rs)
VariantOf(n) ==
    CASE n = 10 -> "MustPromptForInput"
      [] n = 11 -> "MustPromptSensitiveInput"
      [] n = 20 -> "Success"
      [] n = 30 -> "TemporaryRedirect"
      [] n = 31 -> "PermanentRedirect"
      [] n = 40 -> "UnexpectedErrorTryAgain"
      [] n = 41 -> "ServerUnavailable"
      [] n = 42 -> "CGIError"
      [] n = 43 -> "ProxyError"
      [] n = 44 -> "SlowDown"
      [] n = 50 -> "PermanentFailure"
      [] n = 51 -> "ResourceNotFound"
      [] n = 52 -> "ResourceGone"
      [] n = 53 -> "ProxyRequestRefused"
      [] n = 59 -> "BadRequest"
      [] n = 60 -> "CertificateRequired"
      [] n = 61 -> "CertificateNotAuthorized"
      [] n = 62 -> "CertificateNotValid"
      [] OTHER -> "none"

Has(s, ch) == \E i \in 1..Len(s) : s[i] = ch
NoCrLf(s) == ~Has(s, CR) /\ ~Has(s, LF)
From(s, i) == SubSeq(s, i, Len(s))

\* "NN p\r\n": two digits, a space, a payload without CR or LF, CRLF; the
\* payload of the success family is a MIME type, so it holds a '/'
Payload(s) == SubSeq(s, 4, Len(s) - 2)
WellFormed(s) ==
    /\ HasStatus(s)
    /\ Len(s) >= 5
    /\ s[3] = SP
    /\ From(s, Len(s) - 1) = CRLF
    /\ NoCrLf(Payload(s))
    /\ s[1] = "2" => Has(Payload(s), "/")

IsOk == Done /\ result.tag = "Ok"
IsErr == Done /\ result.tag = "Err"
IsErrKind(k) == IsErr /\ result.kind.k = k

\* C1: for every valid status code, parse_response on a minimal well-formed
\* reply for that code ("NN payload\r\n") returns Ok with the Response variant
\* of that code.
C1_ValidCodeYieldsVariant ==
    (Done /\ WellFormed(input) /\ StatusCode(input) \in ValidCodes)
        => (IsOk /\ result.variant = VariantOf(StatusCode(input)))

\* C1 happens: "59 p\r\n" has been parsed to BadRequest
C1_Witness ==
    /\ Done /\ WellFormed(input) /\ StatusCode(input) = 59
    /\ IsOk /\ result.variant = "BadRequest"

\* C2: for every two-digit code that is not a valid status code, an otherwise
\* well-formed reply fails with InvalidStatus(n), n the two-digit code itself,
\* whatever the first digit is.
C2_InvalidStatusNamesCode ==
    (Done /\ WellFormed(input) /\ StatusCode(input) \notin ValidCodes)
        => (IsErrKind("InvalidStatus") /\ result.kind.n = StatusCode(input))

\* C3: a units digit the grammar does not recognize is a parse error in every
\* family, the success family included: a reply with status 21..29 is never
\* returned as Response::Success.
C3_UnitsDigitNeverCoerced ==
    (Done /\ HasStatus(input) /\ input[1] \in Families
          /\ StatusCode(input) \notin ValidCodes)
        => IsErr

\* the reply has a recognized code of family f
Recognized(f) ==
    HasStatus(input) /\ input[1] = f /\ StatusCode(input) \in ValidCodes
\* ... and the character after the two digits is not a space
NonSpaceAfter(f) == Recognized(f) /\ Len(input) >= 3 /\ input[3] # SP
\* ... and the reply ends after the two digits
EndsAfter(f) == Recognized(f) /\ Len(input) = 2

\* C4 as claimed: in each of the families 3x, 4x, 5x and 6x the message is
\* optional: when the character after the digits is not a space the parse
\* succeeds and yields no message.
C4_MessageOptionalWithRedirect ==
    \A f \in {"3", "4", "5", "6"} :
        (Done /\ NonSpaceAfter(f)) => (IsOk /\ result.payload = NoneV)

\* C4, amended: in the families 4x, 5x and 6x a message is read only if the
\* character after the digits is a space, and a recognized code not followed
\* by a space parses to its variant with no message; in the redirect family 3x
\* the space is mandatory: without it the parse fails with SyntaxMissingSpace,
\* or with SyntaxExpectedData when the reply ends after the digits.
C4_MessageOptionalInFailureFamilies ==
    /\ \A f \in {"4", "5", "6"} :
        /\ (Done /\ (NonSpaceAfter(f) \/ EndsAfter(f)))
             => result = Ok(VariantOf(StatusCode(input)), NoneV)
        /\ (IsOk /\ input[1] = f /\ result.payload.some)
             => (Len(input) >= 3 /\ input[3] = SP)
    /\ (Done /\ NonSpaceAfter("3")) => IsErrKind("SyntaxMissingSpace")
    /\ (Done /\ EndsAfter("3")) => IsErrKind("SyntaxExpectedData")

\* C4 happens: "62\r\n" has been parsed to CertificateNotValid(None)
C4_Witness ==
    /\ Done /\ NonSpaceAfter("6") /\ input = <<"6", "2">> \o CRLF
    /\ result = Ok("CertificateNotValid", NoneV)

\* C5: for every recognized code NN of the families 4x, 5x, 6x and every
\* message m without CR or LF, "NN m\r\n" parses to the variant of NN carrying
\* Some(m), and "NN\r\n" to the same variant carrying None.
C5_MessageRoundTrip ==
    (Done /\ HasStatus(input) /\ StatusCode(input) \in MessageCodes)
        => /\ WellFormed(input)
              => result = Ok(VariantOf(StatusCode(input)), Some(Payload(input)))
           /\ From(input, 3) = CRLF
              => result = Ok(VariantOf(StatusCode(input)), NoneV)

\* C5 happens: "51 not found\r\n" parsed to ResourceNotFound(Some("not found"))
C5_Witness ==
    /\ Done
    /\ input = <<"5", "1", SP>> \o msg_not_found \o CRLF
    /\ result = Ok("ResourceNotFound", Some(msg_not_found))

\* the 1-based index of the first CR of s that is followed by LF, 0 if none
FirstCrlf(s) ==
    IF \E i \in 1..(Len(s) - 1) : s[i] = CR /\ s[i + 1] = LF
    THEN CHOOSE i \in 1..(Len(s) - 1) :
             /\ s[i] = CR /\ s[i + 1] = LF
             /\ \A j \in 1..(i - 1) : ~(s[j] = CR /\ s[j + 1] = LF)
    ELSE 0

\* C6: in the input family (10, 11) the two digits must be followed by a
\* space, otherwise the parse fails with SyntaxMissingSpace; with the space,
\* the prompt returned is exactly the characters between that space and the
\* first CRLF of the input, none dropped, none added, the CRLF excluded.
C6_PromptIsTextBeforeCrlf ==
    (Done /\ Recognized("1") /\ Len(input) >= 3)
        => IF input[3] # SP
           THEN IsErrKind("SyntaxMissingSpace")
           ELSE LET rest == From(input, 4)
                    k == FirstCrlf(rest)
                IN  k > 0 => result = Ok(VariantOf(StatusCode(input)),
                                         SubSeq(rest, 1, k - 1))

\* the text after the first ch of s
After(s, ch) == From(s, Find(s, ch) + 1)
\* the text before the first ch of s, all of s when there is none
Before(s, ch) == IF Has(s, ch) THEN SubSeq(s, 1, Find(s, ch) - 1) ELSE s

\* "20 <type>/<subtype>[;params]\r\n<body>": the parts of such a reply
IsSuccessReply(s) ==
    /\ Len(s) >= 3 /\ SubSeq(s, 1, 3) = <<"2", "0", SP>>
    /\ Has(From(s, 4), "/")
    /\ LET a == After(From(s, 4), "/") IN
       /\ Has(a, CR)
       /\ Find(a, CR) < Len(a)
       /\ a[Find(a, CR) + 1] = LF
TypeText(s) == Before(From(s, 4), "/")
SubtypeText(s) == Before(After(From(s, 4), "/"), CR)
BodyText(s) == From(After(After(From(s, 4), "/"), CR), 2)

reply_twenty == <<"2", "0", SP>> \o typ_text \o <<"/">> \o sub_gemini \o CRLF \o body_two_lines

\* C7: for a success reply "20 <type>/<subtype>[;params]\r\n<body>" the
\* MimeType has typ equal to the text before the first '/', sub equal to the
\* text after that '/' up to the first ';' or, without ';', up to the CR, and
\* parameters None when there is no ';'; the body is every character after
\* the LF of the status line ("20 text/gemini\r\nHello, World!\nSomeData\n"
\* gives text, gemini, None and a body of two lines).
C7_MimeTypeAndBody ==
    /\ (Done /\ IsSuccessReply(input))
         => /\ acc = BodyText(input)
            /\ IsOk \/ IsErrKind("InvalidBody")
            /\ IsOk =>
                 /\ result.variant = "Success"
                 /\ result.payload.mime.typ = TypeText(input)
                 /\ result.payload.mime.sub = Before(SubtypeText(input), ";")
                 /\ result.payload.mime.parameters.some = Has(SubtypeText(input), ";")
    /\ (Done /\ input = reply_twenty)
         => /\ IsOk
            /\ result.payload.mime =
                   [typ |-> typ_text, sub |-> sub_gemini, parameters |-> NoneV]
            /\ Len(result.payload.body) = 2

\* C7 happens: the reply of test_twenty has been parsed to a body of two lines
C7_Witness ==
    /\ Done /\ IsSuccessReply(input) /\ IsOk
    /\ input = reply_twenty
    /\ Len(result.payload.body) = 2

\* the text of a piece before its first '=' and between its first and second
HasEq(p) == Has(p, "=")
KeyText(p) == Trim(Before(p, "="))
ValueText(p) == Trim(Before(After(p, "="), "="))

\* the pairs the filter is to keep of the pieces of s: those of the pieces
\* key = value whose key is charset or lang, the last one of each key
KeptParams(s) ==
    LET P == SplitOn(s, ";") IN
    {<<KeyText(P[i]), ValueText(P[i])>> :
        i \in {i \in 1..Len(P) :
                 /\ HasEq(P[i])
                 /\ KeyText(P[i]) \in {charset, lang}
                 /\ \A j \in (i + 1)..Len(P) :
                        ~(HasEq(P[j]) /\ KeyText(P[j]) = KeyText(P[i]))}}

reply_two_params == <<"2", "0", SP>> \o typ_text \o <<"/">> \o sub_two_params \o CRLF
reply_unknown_param == <<"2", "0", SP>> \o typ_text \o <<"/">> \o sub_unknown_param \o CRLF
val_zh_CN == <<"z", "h", "-", "C", "N">>
val_utf_8 == <<"u", "t", "f", "-", "8">>

\* C8: for every success status line each ";"-separated piece is split on
\* '=' with both sides trimmed, and a (key, value) pair is kept only if the
\* key is exactly charset or lang: "20 text/gemini; lang=zh-CN;
\* charset=utf-8\r\n" yields exactly lang=zh-CN and charset=utf-8, and
\* "20 text/gemini; foo=bar\r\n" yields no parameters.
C8_ParameterFiltering ==
    /\ (IsOk /\ IsSuccessReply(input) /\ Has(SubtypeText(input), ";"))
         => /\ result.payload.mime.parameters = Some(KeptParams(SubtypeText(input)))
            /\ \A q \in result.payload.mime.parameters.val : q[1] \in {charset, lang}
    /\ (Done /\ input = reply_two_params)
         => /\ IsOk
            /\ result.payload.mime.parameters =
                   Some({<<lang, val_zh_CN>>, <<charset, val_utf_8>>})
    /\ (Done /\ input = reply_unknown_param)
         => (IsOk /\ result.payload.mime.parameters = Some({}))

\* C8 happens: the reply of test_mimetype has been parsed to its two pairs
C8_Witness ==
    /\ Done /\ input = reply_two_params /\ IsOk
    /\ Cardinality(result.payload.mime.parameters.val) = 2

\* the reply "20 ..." has no MIME type terminated by CR LF: no '/', or no CR
\* after it, or a CR that is not followed by LF
NoMimeNewline(s) ==
    /\ Len(s) >= 3 /\ SubSeq(s, 1, 3) = <<"2", "0", SP>>
    /\ \/ ~Has(From(s, 4), "/")
       \/ LET a == After(From(s, 4), "/") IN
          \/ ~Has(a, CR)
          \/ Find(a, CR) = Len(a)
          \/ a[Find(a, CR) + 1] # LF

\* C9: in the success family a reply whose two digits are not followed by a
\* space fails with ParserError{line: 1, kind: SyntaxMissingSpace}, and a reply
\* in which the character after the CR of the MIME type is not LF, or in which
\* no terminating LF follows the MIME type at all, fails with
\* ParserError{line: 1, kind: SyntaxMissingNewline}.
C9_SuccessSyntaxErrorsAtLine1 ==
    /\ (Done /\ NonSpaceAfter("2")) => result = Err(1, SyntaxMissingSpace)
    /\ (Done /\ NoMimeNewline(input))
         => result = Err(1, SyntaxMissingNewline)

\* eat_char is called on the exhausted input: the reply is empty, or is one
\* family digit, or is two digits of a family that reads a mandatory space
NeedsMore(s) ==
    \/ Len(s) = 0
    \/ Len(s) = 1 /\ s[1] \in Families
    \/ Len(s) = 2 /\ s[1] \in {"1", "2", "3"} /\ IsDigit(s[2])

\* C10 as claimed: the empty input and every single-character input make
\* parse_response fail with ParserError{line: 1, kind: SyntaxExpectedData}.
C10_ShortInputExpectedData ==
    (Done /\ Len(input) <= 1) => result = Err(1, SyntaxExpectedData)

\* C10, amended: whenever eat_char needs another character and the input is
\* exhausted the parse fails with SyntaxExpectedData, and it fails so in no
\* other case; in particular the empty input and every single-character input
\* whose character is one of '1'..'6' fail with ParserError{line: 1, kind:
\* SyntaxExpectedData}, while a single character that is not '1'..'6' fails
\* with InvalidStatus.
C10_ExhaustedInputExpectedData ==
    /\ (Done /\ NeedsMore(input)) => result = Err(1, SyntaxExpectedData)
    /\ IsErrKind("SyntaxExpectedData") => (NeedsMore(input) /\ pos = Len(input))
    /\ (Done /\ Len(input) = 1 /\ input[1] \notin Families)
         => IsErrKind("InvalidStatus")

\* C10 happens: the reply "2" of test_err_syntax_expected_data has failed
C10_Witness ==
    /\ Done /\ input = <<"2">>
    /\ result = Err(1, SyntaxExpectedData)

\* C11: wherever the parser reads a status digit, the first and the second
\* character of the reply, and the character is not one of '0'..'9',
\* parse_response fails with InvalidDigit; "2a0 text/gemini\r\n" fails with
\* InvalidDigit at line 1.
C11_NonDigitStatusIsInvalidDigit ==
    /\ (Done /\ Len(input) >= 1 /\ ~IsDigit(input[1]))
         => IsErrKind("InvalidDigit")
    /\ (Done /\ Len(input) >= 2 /\ input[1] \in Families /\ ~IsDigit(input[2]))
         => IsErrKind("InvalidDigit")
    /\ (Done /\ input = reply_invalid_digit) => result = Err(1, InvalidDigit)

\* the number of '\n' characters of s
CountLf(s) == Cardinality({i \in 1..Len(s) : s[i] = LF})

\* the characters taken from the input so far
Consumed == SubSeq(input, 1, pos)

\* C12: at every point of a parse_response run the tracked line number is 1
\* plus the number of '\n' characters consumed from the input so far,
\* whichever sub-parser consumed them (eat_char, eat_until, eat_until_crlf).
C12_LineCountsConsumedNewlines == line = 1 + CountLf(Consumed)

\* the line of the reply that holds its character number i (1-based)
LineOfChar(s, i) == 1 + CountLf(SubSeq(s, 1, i - 1))

\* the line of the reply on which line n of the body acc lies
ReplyLineOfBodyLine(n) == LineOfChar(input, Len(input) - Len(acc) + 1) + n - 1

\* C13: every ParserError carries the 1-based line of the reply text at which
\* the violation was detected: the line of the offending character (for a
\* missing character, the line the input ends on); for a body that fails to
\* parse, the position of the offending line in the whole reply, the status
\* line being line 1; for InvalidStatus, the status line, line 1.
C13_ErrorLineIsReplyLine ==
    /\ IsErrKind("InvalidBody")
         => result.line = ReplyLineOfBodyLine(result.kind.e.line)
    /\ IsErrKind("InvalidStatus") => result.line = 1
    /\ (IsErrKind("InvalidDigit") \/ IsErrKind("SyntaxMissingSpace"))
         => result.line = LineOfChar(input, pos)
    /\ (IsErrKind("SyntaxExpectedData") \/ IsErrKind("SyntaxMissingNewline"))
         => result.line = LineOfChar(input, pos + 1)

(***************************************************************************)
(* Properties of parse_gemtext.  They read the text in str, its lines in   *)
(* line_iter, the lines emitted so far in b and the returned value in doc. *)
(***************************************************************************)
GemDone == doc # NoResult
GemOk == GemDone /\ doc.ok
GemErr == GemDone /\ ~doc.ok

\* line i of the text has been parsed to the Line b[i]
Parsed == 1..Len(b)
IsLinkLine(l) == StartsWith(l, LINK_START)

\* the text of a link line after "=>" and the whitespace that follows it
AfterMarker(l) == TrimStart(Skip(l, 2))
\* the index of the first space or tab of s, 0 when there is none
FirstWsp(s) ==
    IF \E i \in 1..Len(s) : s[i] \in WSP
    THEN CHOOSE i \in 1..Len(s) : s[i] \in WSP /\ \A j \in 1..(i - 1) : s[j] \notin WSP
    ELSE 0
\* the text of s before its first space or tab, and the text after it
UrlToken(s) == IF FirstWsp(s) = 0 THEN s ELSE SubSeq(s, 1, FirstWsp(s) - 1)
Remainder(s) == IF FirstWsp(s) = 0 THEN <<>> ELSE From(s, FirstWsp(s) + 1)

faq_gmi == <<"f", "a", "q", ".", "g", "m", "i">>
read_the_faq == <<"R", "e", "a", "d", SP, "t", "h", "e", SP, "F", "A", "Q">>

\* C14 as claimed: a link line is parsed by stripping "=>" and the leading
\* whitespace and splitting the remainder into whitespace-delimited tokens:
\* the first token is the URL text and the description is the further tokens
\* rejoined with single spaces, None when no token follows.
C14_DescriptionIsTokensRejoined ==
    \A i \in Parsed : IsLinkLine(line_iter[i]) =>
        LET toks == Tokens(AfterMarker(line_iter[i])) IN
        /\ b[i].t = "Link"
        /\ b[i].url.ref = UrlText(toks[1])
        /\ b[i].description =
               IF Len(toks) > 1 THEN Some(JoinSp(Tail(toks))) ELSE NoneV

\* C14, amended: a link line is parsed by stripping "=>" and the leading
\* whitespace and splitting the remainder once, at its first space or tab:
\* the text before it is the URL text and the text after it, kept as it is,
\* is the description, None when that text is empty; "=> faq.gmi Read the
\* FAQ" yields the Link of faq.gmi resolved against the base URL with the
\* description Some("Read the FAQ").
C14_DescriptionIsRemainderVerbatim ==
    /\ \A i \in Parsed : IsLinkLine(line_iter[i]) =>
        LET rest == AfterMarker(line_iter[i]) IN
        /\ b[i].t = "Link"
        /\ b[i].url.ref = UrlText(UrlToken(rest))
        /\ b[i].description =
               IF Remainder(rest) = <<>> THEN NoneV ELSE Some(Remainder(rest))
    /\ \A i \in Parsed : line_iter[i] = line_link_faq =>
        b[i] = [t |-> "Link", url |-> [base |-> BaseUrl, ref |-> faq_gmi],
                description |-> Some(read_the_faq)]

\* C14 happens: "=> faq.gmi Read the FAQ" has been parsed to its Link, and so
\* has a link line whose description keeps the spaces it starts with
C14_Witness ==
    /\ GemOk
    /\ \E i \in Parsed :
         /\ line_iter[i] = line_link_faq
         /\ b[i].description = Some(read_the_faq)
    /\ \E i \in Parsed :
         /\ line_iter[i] = line_link_docs
         /\ b[i].description.some
         /\ Head(b[i].description.val) = SP

\* a link line with no token after "=>", and one whose URL text is no URL
\* and cannot be joined to the base either
MissingUrl(l) == IsLinkLine(l) /\ AfterMarker(l) = <<>>
BadUrl(l) ==
    /\ IsLinkLine(l) /\ ~MissingUrl(l)
    /\ ~IsAbsoluteUrl(UrlToken(AfterMarker(l)))
    /\ ~JoinOk(UrlToken(AfterMarker(l)))
Malformed(l) == MissingUrl(l) \/ BadUrl(l)
\* the index of the first malformed line of the text, 0 when there is none
FirstMalformed ==
    IF \E i \in 1..Len(line_iter) : Malformed(line_iter[i])
    THEN CHOOSE i \in 1..Len(line_iter) :
             /\ Malformed(line_iter[i])
             /\ \A j \in 1..(i - 1) : ~Malformed(line_iter[j])
    ELSE 0

\* C15: gemtext parsing never recovers partially: the first malformed line
\* aborts the whole parse, at that line, and no document is returned, while
\* a text without a malformed line yields a Line for each of its lines; a
\* link line with zero tokens after "=>" fails with LinkLineMissingUrl and
\* the 1-based index of that line ("=> " as the only line fails at line 1).
C15_FirstMalformedLineAborts ==
    /\ GemDone =>
         IF FirstMalformed = 0
         THEN doc.ok /\ Len(doc.lines) = Len(line_iter)
         ELSE /\ ~doc.ok
              /\ doc.line = FirstMalformed
              /\ line_num = FirstMalformed
              /\ Len(b) = FirstMalformed - 1
              /\ MissingUrl(line_iter[FirstMalformed])
                   => doc.kind = "LinkLineMissingUrl"
    /\ (GemDone /\ str = line_link_missing_url)
         => doc = [ok |-> FALSE, line |-> 1, kind |-> "LinkLineMissingUrl"]
    /\ (~GemDone /\ FirstMalformed # 0) => line_num < FirstMalformed

\* C15 happens: a document of three lines has failed at its second line, a
\* link line without a URL, after its first line had been parsed
C15_Witness ==
    /\ GemErr
    /\ Len(line_iter) = 3
    /\ doc = [ok |-> FALSE, line |-> 2, kind |-> "LinkLineMissingUrl"]
    /\ Len(b) = 1

\* a Url is absolute: it was resolved against the base, or its own text
\* starts with a scheme
IsResolved(u) == u.base = BaseUrl \/ (u.base = <<>> /\ HasScheme(u.ref))

\* C16: for every Link line produced, url is the URL text parsed as an
\* absolute URL when that parse succeeds, otherwise the URL text joined
\* against the base URL; the parse fails with InvalidUrl only when both the
\* absolute parse and the join fail; so a Link.url of a returned document is
\* always a resolved absolute URL, never a bare relative path.
C16_UrlAbsoluteOrJoined ==
    /\ \A i \in Parsed : IsLinkLine(line_iter[i]) =>
        LET u == UrlToken(AfterMarker(line_iter[i])) IN
        /\ b[i].url = [base |-> IF IsAbsoluteUrl(u) THEN <<>> ELSE BaseUrl,
                       ref |-> UrlText(u)]
        /\ ~IsAbsoluteUrl(u) => JoinOk(u)
        /\ IsResolved(b[i].url)
    /\ (GemErr /\ doc.kind = "InvalidUrl") =>
        LET u == UrlToken(AfterMarker(line_iter[doc.line])) IN
        /\ IsLinkLine(line_iter[doc.line])
        /\ ~IsAbsoluteUrl(u)
        /\ ~JoinOk(u)
    /\ GemOk => \A i \in 1..Len(doc.lines) :
                    doc.lines[i].t = "Link" => IsResolved(doc.lines[i].url)

\* C16 happens: a document has been returned in which the relative link
\* faq.gmi is joined to the base and the link of test_link_line, an absolute
\* URL, is kept as it is
C16_Witness ==
    /\ GemOk
    /\ \E i \in Parsed :
         /\ line_iter[i] = line_link_faq
         /\ doc.lines[i].url = [base |-> BaseUrl, ref |-> faq_gmi]
    /\ \E i \in Parsed :
         /\ line_iter[i] = line_link_test
         /\ doc.lines[i].url.base = <<>>
         /\ HasScheme(doc.lines[i].url.ref)

IsToggleLine(l) == ~IsLinkLine(l) /\ StartsWith(l, PREFORMAT_TOGGLE)
\* the number of toggle lines among the first n lines of the text
RECURSIVE TogglesUpTo(_)
TogglesUpTo(n) ==
    IF n = 0 THEN 0
    ELSE (IF IsToggleLine(line_iter[n]) THEN 1 ELSE 0) + TogglesUpTo(n - 1)

\* C17: the parser mode has exactly two states, starts in Normal and changes
\* only on toggle lines: every toggle line flips the mode and emits the line
\* for the state entered, so the k-th toggle line of a text yields
\* PreformatToggleOn when k is odd and PreformatToggleOff when k is even, and
\* no other line changes the mode or yields a toggle.
C17_ModeFlipsOnToggleLines ==
    /\ mode \in {"Normal", "Preformat"}
    /\ line_num = 0 => mode = "Normal"
    /\ mode = (IF TogglesUpTo(Len(b)) % 2 = 0 THEN "Normal" ELSE "Preformat")
    /\ \A i \in Parsed :
         /\ IsToggleLine(line_iter[i]) =>
              b[i].t = (IF TogglesUpTo(i) % 2 = 1 THEN "PreformatToggleOn"
                        ELSE "PreformatToggleOff")
         /\ ~IsToggleLine(line_iter[i]) =>
              b[i].t \notin {"PreformatToggleOn", "PreformatToggleOff"}

\* C17 happens: a text of three toggle lines has been parsed to On, Off, On
\* and has left the parser in Preformat
C17_Witness ==
    /\ GemOk
    /\ Len(b) = 3
    /\ \A i \in 1..3 : IsToggleLine(line_iter[i])
    /\ <<b[1].t, b[2].t, b[3].t>> =
           <<"PreformatToggleOn", "PreformatToggleOff", "PreformatToggleOn">>
    /\ mode = "Preformat"

\* the line begins with exactly n '#' characters
BeginsWithHashes(l, n) ==
    /\ Len(l) >= n
    /\ \A j \in 1..n : l[j] = "#"
    /\ Len(l) > n => l[n + 1] # "#"

gemini_in_100_words == <<"G", "e", "m", "i", "n", "i", SP, "i", "n", SP, "1", "0", "0", SP, "w", "o", "r", "d", "s">>

\* C18: for a line that begins with n '#' characters, 1 <= n <= 6,
\* parse_gemtext emits Heading{depth: n, text: t}, t everything after those n
\* characters with the surrounding whitespace trimmed.
C18_HeadingDepthAndText ==
    \A i \in Parsed : \A n \in 1..6 :
        BeginsWithHashes(line_iter[i], n) =>
            b[i] = [t |-> "Heading", text |-> Trim(From(line_iter[i], n + 1)),
                    depth |-> n]

\* C18 happens: "## Gemini in 100 words" has been parsed to its Heading of
\* depth 2
C18_Witness ==
    /\ GemOk
    /\ \E i \in Parsed :
         /\ line_iter[i] = line_heading
         /\ BeginsWithHashes(line_iter[i], 2)
         /\ doc.lines[i] = [t |-> "Heading", text |-> gemini_in_100_words,
                            depth |-> 2]

IsListLine(l) == HandlerOf(l) = "list_item"
IsQuoteLine(l) == HandlerOf(l) = "quote_line"

\* C19: for a line starting with "*", parse_gemtext emits ListItem(rest),
\* rest being every character of the line after the marker and at most one
\* following space; no other character of the line is dropped ("*item" keeps
\* the whole text "item").
C19_ListItemKeepsText ==
    \A i \in Parsed : IsListLine(line_iter[i]) =>
        /\ b[i].t = "ListItem"
        /\ \/ b[i].text = From(line_iter[i], 2)
           \/ /\ Len(line_iter[i]) >= 2 /\ line_iter[i][2] = SP
              /\ b[i].text = From(line_iter[i], 3)

\* C20: for a line starting with ">", parse_gemtext emits Quote(rest), rest
\* being the remainder of the line after the marker, so the quoted text of
\* the line is retained in the Quote value (whitespace around it aside).
C20_QuoteKeepsText ==
    \A i \in Parsed : IsQuoteLine(line_iter[i]) =>
        /\ b[i].t = "Quote"
        /\ Trim(b[i].text) = Trim(From(line_iter[i], 2))

\* the number of physical lines of a text: one for each '\n' and one for
\* the characters, if any, after the last '\n'
PhysicalLines(s) ==
    CountLf(s) + (IF s # <<>> /\ s[Len(s)] # LF THEN 1 ELSE 0)

\* the Line types of the first prefix that matches l, in the order link,
\* toggle, heading, list item, quote; Text when none matches
ClassOf(l) ==
    CASE StartsWith(l, <<"=", ">">>) -> {"Link"}
      [] StartsWith(l, <<BACKTICK, BACKTICK, BACKTICK>>) ->
             {"PreformatToggleOn", "PreformatToggleOff"}
      [] StartsWith(l, <<"#">>) -> {"Heading"}
      [] StartsWith(l, <<"*">>) -> {"ListItem"}
      [] StartsWith(l, <<">">>) -> {"Quote"}
      [] OTHER -> {"Text"}

\* C21: on success parse_gemtext emits exactly one Line per physical line of
\* the body, in body order; each line is classified by the first matching
\* prefix in the order "=>", toggle, "#", "*", ">", and a line matching none
\* becomes Text holding the line's exact content.
C21_OneLinePerPhysicalLine ==
    /\ Len(line_iter) = PhysicalLines(str)
    /\ GemOk =>
         /\ Len(doc.lines) = PhysicalLines(str)
         /\ doc.lines = b
    /\ \A i \in Parsed :
         /\ b[i].t \in ClassOf(line_iter[i])
         /\ b[i].t = "Text" => b[i] = [t |-> "Text", text |-> line_iter[i]]

\* C21 happens: a document of a plain line, a heading and a link has been
\* parsed to a Text, a Heading and a Link, in that order
C21_Witness ==
    /\ GemOk
    /\ PhysicalLines(str) = 3
    /\ line_iter = <<line_text, line_heading, line_link_docs>>
    /\ <<doc.lines[1].t, doc.lines[2].t, doc.lines[3].t>> = <<"Text", "Heading", "Link">>
    /\ doc.lines[1].text = line_text

\* the second call of parse_gemtext on the text is running or has returned
Again == first # NoResult

\* C28: two calls of parse_gemtext with the same body and the same base URL
\* return equal results, the same Line sequence or the same error with the
\* same line number; no parser state survives from one call to the next.
C28_SecondCallReturnsTheSame ==
    /\ (Again /\ GemDone) => doc = first
    /\ (Again /\ line_num = 0) => (mode = "Normal" /\ b = <<>>)

\* C28 happens: a text of three lines whose first call ended in Preformat
\* mode has been parsed a second time, to the same lines
C28_Witness ==
    /\ Again /\ GemOk
    /\ doc = first
    /\ Len(doc.lines) = 3
    /\ mode = "Preformat"

\* the mode in which line i of the text is parsed
ModeBefore(i) == IF TogglesUpTo(i - 1) % 2 = 0 THEN "Normal" ELSE "Preformat"
\* what line i of the text yields when it is parsed in Normal mode
InNormalMode(i) == GemtextLine(line_iter[i], "Normal", i).line

\* C29: the parser mode does not influence line classification: while the
\* mode is Preformat every non-toggle line is classified by the same prefix
\* rules and yields the same Line as it would in Normal mode, and a "=>" line
\* without a URL inside a preformat block fails with LinkLineMissingUrl.
C29_PreformatLinesClassifiedAsNormal ==
    /\ \A i \in Parsed :
         (ModeBefore(i) = "Preformat" /\ ~IsToggleLine(line_iter[i])) =>
             /\ b[i] = InNormalMode(i)
             /\ b[i].t \in ClassOf(line_iter[i])
    /\ (GemDone /\ FirstMalformed # 0 /\ ModeBefore(FirstMalformed) = "Preformat"
             /\ MissingUrl(line_iter[FirstMalformed]))
         => doc = [ok |-> FALSE, line |-> FirstMalformed,
                   kind |-> "LinkLineMissingUrl"]

\* C29 happens: inside a preformat block a heading line has been parsed to a
\* Heading and the link line without a URL after it has failed
C29_Witness ==
    /\ GemErr
    /\ line_iter = <<PREFORMAT_TOGGLE, line_heading, line_link_missing_url>>
    /\ mode = "Preformat"
    /\ b[2].t = "Heading"
    /\ doc = [ok |-> FALSE, line |-> 3, kind |-> "LinkLineMissingUrl"]

\* the number of '#' characters the line begins with
LeadingHashes(l) == Cardinality({k \in 1..Len(l) : \A j \in 1..k : l[j] = "#"})

\* C30: heading depth is unbounded and always positive: for every n >= 1 a
\* line beginning with exactly n '#' characters yields a Heading whose stored
\* depth equals n; the depth is never clamped, never wraps around and is
\* never 0.
C30_HeadingDepthIsHashCount ==
    \A i \in Parsed : LeadingHashes(line_iter[i]) >= 1 =>
        /\ b[i].t = "Heading"
        /\ b[i].depth = LeadingHashes(line_iter[i])
        /\ b[i].depth >= 1

(***************************************************************************)
(* Properties of TlsClient.                                                *)
(***************************************************************************)
\* C22: prepare_read leaves its loop only when the session no longer wants
\* to read or a round read zero bytes, and a read call on a peer that stops
\* sending returns.
C22_ReadTerminates ==
    /\ []((call = "read" /\ tpc = "reader") => (~WantsRead \/ avail = 0))
    /\ (call = "read") ~> (call = "none")
\* a read left the loop on a round of zero bytes, the session still wanting
\* to read
C22_Witness ==
    /\ call = "read"
    /\ tpc = "reader"
    /\ WantsRead
    /\ avail = 0

\* C23: when write is about to hand buf to the plaintext writer, the session
\* is not handshaking and holds no ciphertext that still wants to be
\* written.
C23_NothingQueuedBeforeHandOver ==
    (call = "write" /\ tpc = "writer") => (~handshaking /\ ~WantsWrite)
\* a second call, a write, is about to hand over its bytes after the
\* ciphertext of the handshake and of an earlier write went to the socket
C23_Witness ==
    /\ call = "write"
    /\ tpc = "writer"
    /\ buf > 0
    /\ calls >= 2
    /\ sent >= 2

\* C24: a write that handed its bytes to the plaintext writer returns the
\* number of bytes the writer accepted, after exactly one flush attempt, and
\* no ciphertext is lost: what the session produced is on the socket or
\* still pending.
C24_WriteReportsAcceptedBytes ==
    (ret.some /\ ret.val.of = "write" /\ handed.some) =>
        /\ ret.val.ok
        /\ ret.val.val = handed.val
        /\ after_hand = 1
        /\ queued = sent + pending

\* C25: an error raised by a complete_io round or by the session during
\* read, write or flush ends the call there: the call has returned an Err,
\* no round ran after the failure, and only a failure makes a call return
\* an Err.
C25_ErrorsReturnedAtOnce ==
    /\ failed => (call = "none" /\ ret.some /\ ~ret.val.ok)
    /\ after_fail = 0
    /\ (ret.some /\ ~ret.val.ok) => failed
\* a read returned the protocol error of one of its rounds
C25_Witness ==
    /\ failed
    /\ ret.some
    /\ ret.val.of = "read"
    /\ ret.val.err = "InvalidData"
    /\ ~handshaking

\* C26: new_from_host called with a host that is not a valid server
\* identity returns InvalidAddress, and TlsError is returned only for a
\* host that is one.
C26_InvalidHostIsInvalidAddress ==
    /\ (conn # "none" /\ ~IsServerName(host)) => conn = "InvalidAddress"
    /\ conn = "TlsError" => IsServerName(host)

(***************************************************************************)
(* Properties of Document.                                                 *)
(***************************************************************************)
\* C27: every load ends with a LoadComplete message, so a Document that is
\* Loading becomes Loaded or Error, also when the transport or the parsing
\* of the reply fails.
C27_LoadingEnds ==
    (state.tag = "Loading") ~> (state.tag \in {"Loaded", "Error"})

(***************************************************************************)
(* More properties of link lines.                                          *)
(***************************************************************************)
seven_spaces == <<SP, SP, SP, SP, SP, SP, SP>>
project_gemini_documentation ==
    <<"P", "r", "o", "j", "e", "c", "t", SP, "G", "e", "m", "i", "n", "i", SP,
      "d", "o", "c", "u", "m", "e", "n", "t", "a", "t", "i", "o", "n">>

\* C31: on a link line only the first space or tab after the URL token
\* separates the URL from the description: whatever follows that one
\* character is the description, with the whitespace it starts with or
\* repeats; "=> docs/        Project Gemini documentation" yields a
\* description of seven spaces and "Project Gemini documentation".
C31_OneSeparatorRestVerbatim ==
    /\ \A i \in Parsed :
        (IsLinkLine(line_iter[i]) /\ Remainder(AfterMarker(line_iter[i])) # <<>>)
            => b[i].description = Some(Remainder(AfterMarker(line_iter[i])))
    /\ \A i \in Parsed : line_iter[i] = line_link_docs =>
        b[i].description = Some(seven_spaces \o project_gemini_documentation)
\* the link line of the homepage has been parsed to a Link whose
\* description starts with the seven spaces
C31_Witness ==
    /\ GemOk
    /\ \E i \in Parsed :
         /\ line_iter[i] = line_link_docs
         /\ b[i].t = "Link"
         /\ b[i].description = Some(seven_spaces \o project_gemini_documentation)

\* every character of s is whitespace
AllWhitespace(s) == \A k \in 1..Len(s) : IsWhitespace(s[k])

\* C32: a link line whose URL token comes after any run of whitespace and
\* is followed by whitespace only yields a Link with description None.
C32_TrailingWhitespaceIsNoDescription ==
    \A i \in Parsed :
        LET rest == AfterMarker(line_iter[i]) IN
        (IsLinkLine(line_iter[i]) /\ rest # <<>> /\ AllWhitespace(Remainder(rest)))
            => (b[i].t = "Link" /\ b[i].description = NoneV)

(***************************************************************************)
(* More properties of Document.                                            *)
(***************************************************************************)
\* the calls load_gemini makes on the TlsClient of a load, in their order
TransportOrder == <<"new_from_host", "write", "read_to_end">>
IsPrefix(s, t) == Len(s) <= Len(t) /\ s = SubSeq(t, 1, Len(s))

\* C33: one load of a gemini URL opens one transport, writes the request
\* line once and before any read, then reads the reply to its end, and
\* calls parse_response only after that; nothing is written after a read.
C33_OneWriteThenReadThenParse ==
    \A f \in tasks :
        /\ IsPrefix(f.log, TransportOrder)
        /\ f.at = "write" => f.log = <<"new_from_host">>
        /\ f.at = "read_to_end" => f.log = <<"new_from_host", "write">>
        /\ f.at = "parse_response" => f.log = TransportOrder
\* a load is about to hand the reply it has read to parse_response
C33_Witness ==
    \E f \in tasks :
        /\ f.at = "parse_response"
        /\ f.url = gemini_url
        /\ f.log = TransportOrder

\* the loads of the Document that have not been delivered to update yet
InFlight == Cardinality(tasks) + Len(inbox)
\* this step starts a load
StartsLoad == \E f \in tasks' \ tasks : f.at = "load_document"
\* this step is update(LoadComplete(..))
DeliversLoadComplete == inbox # <<>> /\ inbox' = Tail(inbox)

\* C34: a Document has at most one load in flight; while it is Loading, a
\* message other than LoadComplete changes neither state nor history and
\* starts no load; a load starts only at construction or from Loaded or
\* Error, and the document is Loading after the start.
C34_OneLoadInFlight ==
    /\ [](InFlight <= 1)
    /\ [][(state.tag = "Loading" /\ ~DeliversLoadComplete) =>
            (state' = state /\ history' = history /\ ~StartsLoad)]_vars
    /\ [][StartsLoad =>
            (state.tag \in {"None", "Loaded", "Error"} /\ state' = Loading)]_vars
\* a Document that was Loaded or Error before is Loading again, with the
\* one load of its second page
C34_Witness ==
    /\ state = Loading
    /\ Len(history) = 2
    /\ InFlight = 1
    /\ \E f \in tasks : f.at = "load_document"

\* history.back()
LastOf(h) == h[Len(h)]

\* C35: the URL held by a Loaded or Error state is the last entry of the
\* history, and while the Document is Loading the URL of its load, running
\* or completed and not delivered yet, is the last entry of the history.
C35_UrlIsLastOfHistory ==
    /\ state.tag \in {"Loaded", "Error"} => state.url = LastOf(history)
    /\ state.tag = "Loading" =>
        /\ \A f \in tasks : f.url = LastOf(history)
        /\ \A k \in 1..Len(inbox) : inbox[k].url = LastOf(history)
\* the Document has gone on from its first page to another URL, whose load
\* has ended in the Error state
C35_Witness ==
    /\ state.tag = "Error"
    /\ Len(history) = 2
    /\ history[1] # history[2]
    /\ state.url = history[2]

\* this step starts the load of the URL u
StartsLoadOf(u) == \E f \in tasks' \ tasks : f.at = "load_document" /\ f.url = u

C37_ResultReachesItsDocument ==
    \A k \in 1..Len(documents) :
        /\ documents[k].id \notin lost
        /\ documents[k].state # "Loading" => documents[k].by = documents[k].id

\* C38: after any sequence of root-window messages, stale indices included,
\* update has not panicked and document_cursor indexes an existing document
\* whenever at least one document is open.
C38_NoPanicAndCursorInBounds ==
    /\ ~crashed
    /\ documents # <<>> => document_cursor < Len(documents)

(***************************************************************************)
(* Claims about the end of the status line and about totality.             *)
(***************************************************************************)
\* the string s holds a CR that is followed by LF
HasCrlf(s) == \E i \in 1..(Len(s) - 1) : s[i] = CR /\ s[i + 1] = LF

\* C39: parse_response accepts a reply of the families 1, 3, 4, 5, 6 only if
\* its status line is terminated by CRLF: an input that ends without CRLF
\* after the status code or its payload ("40", "51 not found") is rejected
\* with an error rather than returned as a Response.
C39_NonSuccessNeedsCrlf ==
    (IsOk /\ input[1] \in {"1", "3", "4", "5", "6"}) => HasCrlf(input)

\* how far the handlers of reply have got: no step leads to an earlier place
Rank(at) ==
    CASE at = "reply" -> 8
      [] at = "digit" -> 7
      [] at \in {"sp", "msg"} -> 6
      [] at = "typ" -> 5
      [] at = "sub" -> 4
      [] at = "newline" -> 3
      [] at \in {"body", "crlf"} -> 2
      [] at = "match" -> 1
      [] at = "done" -> 0

\* the step from this state reads the character a peek has read before it:
\* read_error_msg peeks and then calls eat_sp, success peeks and then calls
\* eat_char
PeekedThenEaten ==
    \/ pc = "msg" /\ MsgFollows(Peek)
    \/ pc = "newline" /\ NewlineFollows(Peek)

\* the places of a parse that has not ended; each has a step, whatever the
\* character under the iterator and also at the end of the input
Places == {"reply", "digit", "sp", "msg", "crlf", "match", "typ", "sub",
           "newline", "body"}

\* a step of the parse: the iterator does not move back, the parse does not
\* return to an earlier place, and one of the two moves on
StepAdvances ==
    /\ pos' >= pos
    /\ Rank(pc') <= Rank(pc)
    /\ pos' > pos \/ Rank(pc') < Rank(pc)

\* C40 as stated: the parse returns Ok or an error, never panics, and never
\* reads a character of its input twice.
C40_NoCharacterReadTwice ==
    /\ Done => result.tag \in {"Ok", "Err"}
    /\ ~PeekedThenEaten

\* C40: parse_response, and parse_gemtext within it, are total over finite
\* inputs: the iterator never moves back and never passes the end of the
\* input, so every character is consumed at most once; every step consumes
\* a character or moves on to a later place of the parse, so the parse ends
\* after a number of steps linear in the length of the input; a parse that
\* has not ended is at a place that has a step; and it ends in Ok or in a
\* ParserError, never in a panic.  (The character that peek looks at is
\* read again by the eat_sp or eat_char that consumes it.)
C40_ParseIsTotal ==
    /\ [](/\ pos <= Len(input)
          /\ Done => result.tag \in {"Ok", "Err"}
          /\ ~Done => pc \in Places)
    /\ [][StepAdvances]_vars

\* a reply with a CR that no LF follows has been parsed to its end
C40_Witness ==
    /\ Done
    /\ pos = Len(input)
    /\ Len(input) >= 5
    /\ \E i \in 1..Len(input) :
            input[i] = CR /\ (i = Len(input) \/ input[i + 1] # LF)

====
